---- MODULE Spec2Model ----
(***************************************************************************)
(* light-play: the RAOP session engine (raopclient.c), the RTSP client      *)
(* (rtspclient.c, rtspresponse.c) and the audio worker thread, with the     *)
(* SIGINT handler of light-play.c running raopClientStopPlaying on the      *)
(* main thread.                                                             *)
(*                                                                          *)
(* Threads of control: the main thread, which runs either the foreground    *)
(* frame "fg" or, while a SIGINT handler is active, the handler frame       *)
(* "sig" (the foreground is suspended meanwhile); and the audio worker.     *)
(* Every read or write of the cross-thread flags isSendingAudio and         *)
(* audioThreadJoinable is a step of its own.                                *)
(***************************************************************************)
EXTENDS Integers, Sequences, FiniteSets, TLC

(***************************************************************************)
(* Bounds of the model                                                      *)
(***************************************************************************)
\* samples in the M4A file that is played
NumSamples == 2
\* largest number of one-second sleeps the drain-wait starts with
MaxDrain == 1
\* SIGINTs delivered during the run
MaxSignals == 1
\* raopClientSetVolume calls made by the foreground
MaxVolumeCalls == 1
\* 401 responses the receiver gives during the run
MaxChallenges == 2
\* failures the environment causes during the run: a send or receive that fails, a
\* response other than a well-formed 200 or a 401, a clock, file or thread failure
MaxFaults == 2
\* SIGINTs, 401 responses and failures during the run, taken together
MaxDisturbances == 2

(***************************************************************************)
(* Program constants                                                        *)
(***************************************************************************)
RTSP_RESPONSE_LOW_BANDWIDTH == 354
RTSP_RESPONSE_NEED_AUTHENTICATION == 401
MAX_REALM_SIZE == 20
MAX_NONCE_SIZE == 41
UNUSED_PORT_NUMBER == 0

\* raopclient.c, the volume values, in hundredths (a float is modelled by the number of
\* hundredths it holds; the model uses no value that is half a tenth, where the binary
\* value would decide the rounding of "%.1f")
VOLUME_DEFAULT == 1500
VOLUME_MUTED == 0
VOLUME_MIN_VALUE == 1
VOLUME_MAX_VALUE == 3000
VOLUME_INTERNAL_OFFSET == 0 - 3000
VOLUME_INTERNAL_MUTED == 0 - 14400

\* a header that a message does not carry (rtspResponseFindValueForKey returns NULL)
NoHeader == <<>>

RTSPRequestMethod ==
    {"OPTIONS", "ANNOUNCE", "SETUP", "RECORD", "SET_PARAMETER", "FLUSH", "TEARDOWN"}

\* the two frames of the main thread
Frames == {"fg", "sig"}

(***************************************************************************)
(* Responses of the receiver.  A response is its status line (valid: the    *)
(* line parses as "RTSP/d.d <status>"), its CSeq header ("ok": a number,    *)
(* "bad": present and not a number), the text of its Session header and of  *)
(* the server_port of its Transport header (a sequence of characters,       *)
(* NoHeader: absent) and its WWW-Authenticate header.                       *)
(* A WWW-Authenticate header is a scheme and a list of name="value" fields; *)
(* size is the length of the value, name "?" a field that is not of the     *)
(* form name="value".                                                       *)
(***************************************************************************)
NoChallenge == [present |-> FALSE, scheme |-> "", fields |-> <<>>]

Field(n, v, s) == [name |-> n, value |-> v, size |-> s]

Digest(fs) == [present |-> TRUE, scheme |-> "Digest", fields |-> fs]

\* WWW-Authenticate: Basic realm="AppleTV"
BasicChallenge == [present |-> TRUE, scheme |-> "Basic", fields |-> <<Field("realm", "AppleTV", 7)>>]
\* WWW-Authenticate: Digest realm="AppleTV", nonce="abcdef"
DigestChallenge == Digest(<<Field("realm", "AppleTV", 7), Field("nonce", "abcdef", 6)>>)
\* WWW-Authenticate: Digest algorithm="MD5", nonce="012345", realm="Other"
OtherDigestChallenge ==
    Digest(<<Field("algorithm", "MD5", 3), Field("nonce", "012345", 6), Field("realm", "Other", 5)>>)
\* WWW-Authenticate: Digest realm="AppleTV"
RealmOnlyChallenge == Digest(<<Field("realm", "AppleTV", 7)>>)
\* a realm of 21 characters
LongRealmChallenge ==
    Digest(<<Field("realm", "ARealmOfTwentyOneChar", 21), Field("nonce", "abcdef", 6)>>)

\* WWW-Authenticate: Digest realm="", nonce="fedcba"
EmptyRealmChallenge == Digest(<<Field("realm", "", 0), Field("nonce", "fedcba", 6)>>)

Challenges == {NoChallenge, BasicChallenge, DigestChallenge, OtherDigestChallenge, RealmOnlyChallenge,
               LongRealmChallenge, EmptyRealmChallenge}

Response(st, cs, se, po, ch) ==
    [valid |-> TRUE, status |-> st, cseq |-> cs, session |-> se, port |-> po, auth |-> ch]

\* an empty receive buffer (the peer closed the connection, or nothing received yet)
EmptyResponse ==
    [valid |-> FALSE, status |-> 0, cseq |-> "ok", session |-> NoHeader, port |-> NoHeader,
     auth |-> NoChallenge]

\* Session: 10 (hexadecimal, session 16), Session: zz, or no Session header
SessionValues == {NoHeader, <<"1", "0">>, <<"z", "z">>}
\* server_port=6000, server_port=49152, or no server_port
PortValues == {NoHeader, <<"6", "0", "0", "0">>, <<"4", "9", "1", "5", "2">>}
FailureStatuses == {100, RTSP_RESPONSE_LOW_BANDWIDTH, 500}

\* the response of a receiver that accepts the request
WellFormedResponse(method) ==
    IF method = "SETUP" THEN Response(200, "ok", <<"1", "0">>, <<"6", "0", "0", "0">>, NoChallenge)
    ELSE Response(200, "ok", NoHeader, NoHeader, NoChallenge)

\* the responses a receiver may give to a request of the method: only a response to
\* SETUP carries Session and Transport headers
Responses(method) ==
    (IF method = "SETUP"
     THEN { Response(200, "ok", s, p, NoChallenge) : s \in SessionValues, p \in PortValues }
          \cup { Response(250, "ok", <<"1", "0">>, <<"6", "0", "0", "0">>, NoChallenge),
                 Response(200, "bad", <<"1", "0">>, <<"6", "0", "0", "0">>, NoChallenge) }
     ELSE { Response(200, "ok", NoHeader, NoHeader, NoChallenge),
            Response(250, "ok", NoHeader, NoHeader, NoChallenge),
            Response(200, "bad", NoHeader, NoHeader, NoChallenge) })
    \cup { Response(RTSP_RESPONSE_NEED_AUTHENTICATION, "ok", NoHeader, NoHeader, c) :
               c \in Challenges }
    \cup { Response(st, "ok", NoHeader, NoHeader, NoChallenge) : st \in FailureStatuses }
    \cup { EmptyResponse }

\* rtspResponseReceive: what the response buffer holds of a response once its status
\* line is parsed, the header fields the client looks up later
HeaderFields(r) == [cseq |-> r.cseq, session |-> r.session, port |-> r.port, auth |-> r.auth]

(***************************************************************************)
(* rtspResponseGetAuthenticationResponse: the realm and nonce of the        *)
(* WWW-Authenticate header of a response.                                   *)
(***************************************************************************)
NoField == Field("", "", 0)

\* the loop over the fields: it ends when both realm and nonce are found
RECURSIVE ScanAuthenticationFields(_, _, _)
ScanAuthenticationFields(fs, realmValue, nonceValue) ==
    IF fs = <<>> \/ (realmValue # NoField /\ nonceValue # NoField)
    THEN [ok |-> TRUE, realmValue |-> realmValue, nonceValue |-> nonceValue]
    ELSE LET f == Head(fs) IN
         IF f.name = "realm" THEN ScanAuthenticationFields(Tail(fs), f, nonceValue)
         ELSE IF f.name = "nonce" THEN ScanAuthenticationFields(Tail(fs), realmValue, f)
         ELSE IF f.name = "?"
              THEN [ok |-> FALSE, realmValue |-> realmValue, nonceValue |-> nonceValue]
              ELSE ScanAuthenticationFields(Tail(fs), realmValue, nonceValue)

AuthenticationFailed == [ok |-> FALSE, realm |-> "", realmSize |-> 0, nonce |-> "", nonceSize |-> 0]

rtspResponseGetAuthenticationResponse(response) ==
    IF ~response.auth.present THEN AuthenticationFailed
    ELSE IF response.auth.scheme # "Digest" THEN AuthenticationFailed
    ELSE LET scan == ScanAuthenticationFields(response.auth.fields, NoField, NoField) IN
         IF ~scan.ok THEN AuthenticationFailed
         ELSE IF scan.realmValue = NoField \/ scan.nonceValue = NoField
              THEN AuthenticationFailed
         ELSE IF MAX_REALM_SIZE < scan.realmValue.size \/ MAX_NONCE_SIZE < scan.nonceValue.size
              THEN AuthenticationFailed
         ELSE [ok |-> TRUE,
               realm |-> scan.realmValue.value, realmSize |-> scan.realmValue.size,
               nonce |-> scan.nonceValue.value, nonceSize |-> scan.nonceValue.size]

(***************************************************************************)
(* rtspResponseGetSession and rtspResponseGetServerPort: sscanf on the text *)
(* of the header value.                                                     *)
(***************************************************************************)
HexDigits == <<"0", "1", "2", "3", "4", "5", "6", "7", "8", "9", "a", "b", "c", "d", "e", "f">>
UpperHexDigits == <<"0", "1", "2", "3", "4", "5", "6", "7", "8", "9", "A", "B", "C", "D", "E", "F">>

\* the value of a character as a digit; 16 when it is no digit of any base
DigitValue(ch) ==
    IF \E i \in DOMAIN HexDigits : HexDigits[i] = ch
    THEN (CHOOSE i \in DOMAIN HexDigits : HexDigits[i] = ch) - 1
    ELSE IF \E i \in DOMAIN UpperHexDigits : UpperHexDigits[i] = ch
    THEN (CHOOSE i \in DOMAIN UpperHexDigits : UpperHexDigits[i] = ch) - 1
    ELSE 16

\* the digits of the base at the start of the text: their number and their value
RECURSIVE ScanDigits(_, _, _, _)
ScanDigits(text, base, count, value) ==
    IF text = <<>> \/ DigitValue(Head(text)) >= base
    THEN [count |-> count, value |-> value]
    ELSE ScanDigits(Tail(text), base, count + 1, value * base + DigitValue(Head(text)))

\* white space before a conversion is skipped
RECURSIVE SkipSpaces(_)
SkipSpaces(text) ==
    IF text # <<>> /\ Head(text) = " " THEN SkipSpaces(Tail(text)) ELSE text

\* the text starts with 0x or 0X followed by a hexadecimal digit
HasHexPrefix(text) ==
    /\ Len(text) >= 3
    /\ text[1] = "0" /\ text[2] \in {"x", "X"}
    /\ DigitValue(text[3]) < 16

\* sscanf(value, "%" SCNx32, &uint32Value): ok when the conversion was made
ScanHex32(text) ==
    LET t == SkipSpaces(text)
        scan == IF HasHexPrefix(t) THEN ScanDigits(SubSeq(t, 3, Len(t)), 16, 0, 0)
                ELSE ScanDigits(t, 16, 0, 0)
    IN [ok |-> scan.count > 0, value |-> scan.value]

\* raopClientSetAudioPort takes an int16_t
ToInt16(n) == ((n + 32768) % 65536) - 32768

\* sscanf(value, "%" SCNi16, &int16Value): the base follows the prefix (0x: 16, 0: 8,
\* otherwise 10) and the number is stored in an int16_t; a number an int16_t cannot
\* represent is stored reduced to its low 16 bits
ScanInt16(text) ==
    LET t == SkipSpaces(text)
        negative == t # <<>> /\ Head(t) = "-"
        u == IF t # <<>> /\ Head(t) \in {"-", "+"} THEN Tail(t) ELSE t
        scan == IF HasHexPrefix(u) THEN ScanDigits(SubSeq(u, 3, Len(u)), 16, 0, 0)
                ELSE IF u # <<>> /\ Head(u) = "0" THEN ScanDigits(u, 8, 0, 0)
                ELSE ScanDigits(u, 10, 0, 0)
    IN [ok |-> scan.count > 0,
        value |-> ToInt16(IF negative THEN 0 - scan.value ELSE scan.value)]

\* rtspResponseGetSession
rtspResponseGetSession(response) ==
    IF response.session = NoHeader THEN [ok |-> FALSE, value |-> 0]
    ELSE ScanHex32(response.session)

\* rtspResponseGetServerPort
rtspResponseGetServerPort(response) ==
    IF response.port = NoHeader THEN [ok |-> FALSE, value |-> 0]
    ELSE ScanInt16(response.port)

(***************************************************************************)
(* State                                                                    *)
(***************************************************************************)
VARIABLES
    \* the process is running (FALSE after a crash or after main returned)
    alive,
    \* position of each frame of the main thread; "api": the foreground is between
    \* two calls, "idle": no handler is active, "done": main has left
    pc,
    \* rtspClientSendCommand in progress in each frame: its phase, the requests it
    \* handed to the control connection and the responses it received
    cmd,
    \* local variable result of raopClientStopPlaying in each frame
    result,
    \* what the foreground has called so far
    played, playResult, playSteps, nSignals, nVolume,
    \* the volume field of struct RAOPClientStruct, and the argument of the last
    \* raopClientSetVolume
    volume, volumeArg,
    \* struct RAOPClientStruct
    isSendingAudio, audioThreadJoinable, audioPort, audioConnection,
    \* struct RTSPClientStruct
    sessionId, sequenceNumber, needAuthentication, realm, realmSize, nonce, nonceSize,
    rtspRequest, rtspResponse,
    \* struct RTSPResponseStruct: the header fields of the response last received
    responseBuffer,
    \* the audio thread and the M4A read cursor
    thread, wpc, sampleIndex, remainingSeconds, workerError,
    \* the start time given to raopClientPlayM4AFile (seconds), once the audio thread has read it
    startTime,
    \* what went over the two connections, and what the threads did
    lastRequest, methods, flushed, frames, framesAfterFlush, framesAfterClear, framesAfterObserve,
    framesAfterError, frameLog, lastMessage, cleared, observed, joinCalls, challenges, usableChallenge, faults,
    \* what the last call of raopClientStopPlaying did in each frame,
    \* what raopClientCloseConnection did and what it returned
    stopSteps, closeSteps, closeResult,
    \* raopClientWait was called after the audio thread had met an error
    waitAfterError

raopVars == <<isSendingAudio, audioThreadJoinable, audioPort, audioConnection>>
rtspVars == <<sessionId, sequenceNumber, needAuthentication, realm, realmSize, nonce,
              nonceSize, rtspRequest, rtspResponse, responseBuffer>>
authVars == <<realm, realmSize, nonce, nonceSize>>
driverVars == <<played, playResult, playSteps, nSignals, nVolume, volume, volumeArg>>
workerVars == <<thread, wpc, sampleIndex, remainingSeconds, workerError, startTime>>
frameVars == <<frames, framesAfterFlush, framesAfterClear, framesAfterObserve, framesAfterError,
              frameLog, lastMessage>>
teardownVars == <<stopSteps, closeSteps, closeResult, waitAfterError>>
historyVars == <<lastRequest, methods, flushed, frameVars,
                 cleared, observed, joinCalls, teardownVars, challenges, usableChallenge, faults>>
programVars == <<alive, pc, cmd, result, driverVars, raopVars, rtspVars, workerVars, historyVars>>

\* the clock and the playing time of the RAOP client (raopClientGetProgress)
VARIABLES
    clock,              \* the value of CLOCK_MONOTONIC
    startTimespec,      \* raopClient->startTime, both fields
    playingTimeOffset,  \* raopClient->playingTimeOffset
    stored,             \* the fields of playingTimeOffset that clock_gettime has written
    tpc,                \* where the audio thread is between seeking and sending
    currentTime,        \* the clock value raopClientGetProgress last read
    progress,           \* the progress raopClientGetProgress last returned
    startInstant,       \* the clock value the audio thread read at its start
    instantAtCall,      \* startInstant when raopClientGetProgress was last called
    offsetAtCall        \* playingTimeOffset as raopClientGetProgress last read it
timeVars == <<clock, startTimespec, playingTimeOffset, stored, tpc, currentTime, progress,
              startInstant, instantAtCall, offsetAtCall>>

\* the M4A file and its parser (m4afile.c)
VARIABLES
    m4aFile,            \* struct M4AFileStruct, the two streams being their positions in
                        \* the bytes of the file (field file), moved by an fseek that
                        \* takes a long of longWidth 16-bit limbs
    containers,         \* the calls of mp4BoxParseContainerInternal in progress
    ppc,                \* where m4aFileParse and its caller are
    lastBox,            \* the box mp4BoxParse last returned from
    idleCalls,          \* the calls of mp4BoxParse in a row that left the stream in place
    reader              \* the calls of m4aFileSetSampleOffset and m4aFileGetNextSample
                        \* since m4aFileParse
fileVars == <<m4aFile, containers, ppc, lastBox, idleCalls, reader>>


\* an RTSP request that is built and sent (rtsprequest.c)
VARIABLES
    request,            \* struct RTSPRequestStruct, "NULL" before rtspRequestCreate
    built,              \* what was added to the request since it was created or reset
    sent                \* the bytes rtspRequestSend has handed to the connection for the
                        \* request as it is
requestVars == <<request, built, sent>>

\* the parts of the program that are looked at on their own
VARIABLES
    main,               \* main of light-play.c: where it is, what it has parsed of its
                        \* arguments, which of its steps have failed, its exit code
    receive,            \* rtspResponseReceive: the response buffer and the connection
    digest,             \* rtspClientAddAuthenticationFields in two runs of the program
    buffers             \* buffer.c: bufferAllocateCount and the buffers of two threads
lateVars == <<main, receive, digest, buffers>>

extraVars == <<timeVars, fileVars, requestVars, lateVars>>
vars == <<programVars, extraVars>>

NoCommand == [phase |-> "none", method |-> "", reqs |-> <<>>, resps |-> <<>>,
              sid0 |-> 0, port0 |-> 0]

\* the request last handed to the control connection: ok, the send succeeded; retry, it
\* repeats the request of its command; after and afterBuilt, the CSeq of the last request
\* whose send succeeded, and of the last request, before it (0: none).
\* methods: the method of each command's first request, in the order they were handed to
\* the control connection; flushed: a FLUSH request has been sent; usableChallenge: a 401
\* response whose WWW-Authenticate header gives a realm and a nonce has been received
NoRequest == [method |-> "", cseq |-> 0, auth |-> <<>>, session |-> NoHeader,
              content |-> <<>>, ok |-> FALSE,
              retry |-> FALSE, after |-> 0, afterBuilt |-> 0]

\* rtspClientOpenConnection does not initialise the rtspRequest and rtspResponse
\* pointers of the structure it allocates: each is NULL or garbage
UninitialisedPointers == {<<"NULL", "NULL">>, <<"garbage", "NULL">>, <<"NULL", "garbage">>}

\* M4A file arithmetic. An unsigned number is kept as four 16-bit limbs, least
\* significant first, so that 32-bit and 64-bit widths are those of the build
LimbBase == 65536
Limbs(n) == <<n % LimbBase, n \div LimbBase, 0, 0>>

\* x + y in 64 bits
AddLimbs(x, y) ==
    LET s1 == x[1] + y[1]
        s2 == x[2] + y[2] + (s1 \div LimbBase)
        s3 == x[3] + y[3] + (s2 \div LimbBase)
        s4 == x[4] + y[4] + (s3 \div LimbBase)
    IN <<s1 % LimbBase, s2 % LimbBase, s3 % LimbBase, s4 % LimbBase>>

\* x * n in 64 bits, n a small natural number
RECURSIVE MulLimbs(_, _)
MulLimbs(x, n) ==
    IF n = 0 THEN Limbs(0)
    ELSE LET half == MulLimbs(x, n \div 2)
             twice == AddLimbs(half, half)
         IN IF n % 2 = 1 THEN AddLimbs(twice, x) ELSE twice

\* x / DEFAULT_FRAMES_PER_PACKET
DEFAULT_FRAMES_PER_PACKET == 4096
LimbsPerPacket == LimbBase \div DEFAULT_FRAMES_PER_PACKET
DivFramesPerPacket(x) ==
    <<(x[1] \div DEFAULT_FRAMES_PER_PACKET) + (x[2] % DEFAULT_FRAMES_PER_PACKET) * LimbsPerPacket,
      (x[2] \div DEFAULT_FRAMES_PER_PACKET) + (x[3] % DEFAULT_FRAMES_PER_PACKET) * LimbsPerPacket,
      (x[3] \div DEFAULT_FRAMES_PER_PACKET) + (x[4] % DEFAULT_FRAMES_PER_PACKET) * LimbsPerPacket,
      x[4] \div DEFAULT_FRAMES_PER_PACKET>>

\* the conversion of a value to an unsigned type of the given number of limbs
Truncate(x, limbs) == [i \in 1..4 |-> IF i <= limbs THEN x[i] ELSE 0]
ToUint32(x) == Truncate(x, 2)

\* x < n, n a natural number below 2^31
LimbsLess(x, n) ==
    /\ x[4] = 0 /\ x[3] = 0
    /\ \/ x[2] < n \div LimbBase
       \/ x[2] = n \div LimbBase /\ x[1] < n % LimbBase

\* long is 32 bits wide or 64 bits wide, as the build has it
LongLimbs == {2, 4}

\* the timescale of the file (mdhd box), in samples per second
Timescale == 48000

\* start times (seconds) the command line can give: the start of the file, a second
\* into a file that is shorter than that, and the time of sample 2^33 + 1
StartSeconds == {0, 1, 733007752}

\* m4aFileSetSampleOffset: sampleOffset = timescale * tv_sec / DEFAULT_FRAMES_PER_PACKET,
\* the product in the width of long, the result stored in a uint32_t; the offset is
\* rejected when it is not below samplesCount
SampleOffset(seconds, long) ==
    ToUint32(DivFramesPerPacket(Truncate(MulLimbs(Limbs(seconds), Timescale), long)))
m4aFileSetSampleOffset(seconds, long) ==
    LET sampleOffset == SampleOffset(seconds, long)
        ok == LimbsLess(sampleOffset, NumSamples)
    IN [ok |-> ok, sampleIndex |-> IF ok THEN sampleOffset[1] ELSE 0]

\* the sizes of the samples of the file (stsz box), in bytes: every other sample is
\* large, the others are small
LargeSampleSize == 65524
SmallSampleSize == 356
SampleSize(index) == IF index % 2 = 0 THEN LargeSampleSize ELSE SmallSampleSize

\* raopClientSendAudioMessages: the header of the audio message and the number of bytes
\* handed to networkSendMessage. packetLength = (uint16_t)htons(sampleSize + 12): the
\* sum is converted to the uint16_t argument of htons, and memcpy puts its two bytes,
\* most significant first, at bytes 2 and 3; the size is the uint32_t sum
\* AUDIO_MESSAGE_HEADER_SIZE + sampleSize
AUDIO_MESSAGE_HEADER_SIZE == 16
PacketLengthOffset == 12
ByteBase == 256
ToUint16(n) == n % LimbBase
htons(n) == <<ToUint16(n) \div ByteBase, ToUint16(n) % ByteBase>>
AudioMessage(sampleSize) ==
    [sampleSize |-> sampleSize,
     packetLength |-> htons(sampleSize + PacketLengthOffset),
     size |-> ToUint32(AddLimbs(Limbs(AUDIO_MESSAGE_HEADER_SIZE), Limbs(sampleSize)))]

\* no audio message has been sent
NoMessage == [sampleSize |-> 0, packetLength |-> <<>>, size |-> <<>>]

\* what m4aFileSetSampleOffset does for each start time and each width of long
SeekOutcome ==
    [seconds \in StartSeconds |-> [long \in LongLimbs |-> m4aFileSetSampleOffset(seconds, long)]]

ProgramInit ==
    /\ alive = TRUE
    /\ pc = [c \in Frames |-> IF c = "fg" THEN "api" ELSE "idle"]
    /\ cmd = [c \in Frames |-> NoCommand]
    /\ result = [c \in Frames |-> TRUE]
    /\ played = FALSE /\ playResult = "none" /\ playSteps = <<>>
    /\ nSignals = 0 /\ nVolume = 0
    /\ volume = VOLUME_DEFAULT /\ volumeArg = VOLUME_DEFAULT
    /\ isSendingAudio = FALSE
    /\ audioThreadJoinable = FALSE
    /\ audioPort = UNUSED_PORT_NUMBER
    /\ audioConnection = FALSE
    /\ sessionId = 0
    /\ sequenceNumber = 0
    /\ needAuthentication = FALSE
    /\ realm = "" /\ realmSize = 0 /\ nonce = "" /\ nonceSize = 0
    /\ \E p \in UninitialisedPointers : rtspRequest = p[1] /\ rtspResponse = p[2]
    /\ responseBuffer = HeaderFields(EmptyResponse)
    /\ thread = "none" /\ wpc = "none" /\ sampleIndex = 0 /\ remainingSeconds = 0
    /\ workerError = "none" /\ startTime = 0
    /\ lastRequest = NoRequest
    /\ methods = <<>>
    /\ flushed = FALSE
    /\ frames = 0 /\ framesAfterFlush = 0 /\ framesAfterClear = 0 /\ framesAfterObserve = 0
    /\ framesAfterError = 0 /\ frameLog = <<>> /\ lastMessage = NoMessage
    /\ cleared = FALSE /\ observed = FALSE
    /\ joinCalls = 0 /\ challenges = 0 /\ usableChallenge = FALSE /\ faults = 0
    /\ stopSteps = [c \in Frames |-> <<>>] /\ closeSteps = <<>> /\ closeResult = "none"
    /\ waitAfterError = FALSE

\* a struct timespec
Timespec(sec, nsec) == [tv_sec |-> sec, tv_nsec |-> nsec]
NoTimespec == [tv_sec |-> 0 - 1, tv_nsec |-> 0 - 1]

\* the playing time before raopClientPlayM4AFile is called
TimeInit ==
    /\ clock = Timespec(0, 0)
    /\ startTimespec = Timespec(0, 0)
    /\ playingTimeOffset = Timespec(0, 0)
    /\ stored = {}
    /\ tpc = "none"
    /\ currentTime = NoTimespec /\ progress = NoTimespec
    /\ startInstant = NoTimespec /\ instantAtCall = NoTimespec
    /\ offsetAtCall = NoTimespec

\* no file is open
NoFile ==
    /\ m4aFile = [status |-> "M4AFILE_OK", file |-> <<>>, longWidth |-> 4]
    /\ containers = <<>> /\ ppc = "closed" /\ lastBox = [status |-> ""] /\ idleCalls = 0
    /\ reader = [last |-> "none"]

NoRequestBuilt == request = "NULL" /\ built = <<>> /\ sent = <<>>

\* main has not started, nothing is received, no authentication field is made, no
\* buffer is allocated
NoMain == main = [pc |-> "none"]
NoReceive == receive = [pc |-> "none"]
NoDigest == digest = [pc |-> "none"]
NoBuffers == buffers = [pc |-> "none"]

Init == ProgramInit /\ TimeInit /\ NoFile /\ NoRequestBuilt /\ NoMain /\ NoReceive /\ NoDigest /\ NoBuffers

\* the environment lets an operation succeed (ok) or, within the bound, fail
Disturbances == nSignals + challenges + faults

Outcome(ok) ==
    /\ ok \/ (faults < MaxFaults /\ Disturbances < MaxDisturbances)
    /\ faults' = IF ok THEN faults ELSE faults + 1

\* frame c of the main thread is the one that runs
Runs(c) == alive /\ (c = "sig" \/ pc["sig"] = "idle")

\* where a frame continues when the function it runs returns
ReturnPc(c) == IF c = "fg" THEN "api" ELSE "idle"

(***************************************************************************)
(* rtspclient.c                                                             *)
(***************************************************************************)
\* the method each call site of rtspClientSendCommand passes
CallSites ==
    [play_OPTIONS |-> "OPTIONS", play_ANNOUNCE |-> "ANNOUNCE", play_SETUP |-> "SETUP",
     play_RECORD |-> "RECORD", play_SET_PARAMETER |-> "SET_PARAMETER",
     vol_send |-> "SET_PARAMETER", stop_FLUSH |-> "FLUSH", stop_TEARDOWN |-> "TEARDOWN"]

\* the methods whose header fields supplier adds a Session field
HasSessionField(m) == m \in {"RECORD", "FLUSH", "TEARDOWN"}

\* a supplier that prints the session id as a decimal number
RECURSIVE FormatDecimal(_)
FormatDecimal(n) ==
    IF n < 10 THEN <<HexDigits[n + 1]>>
    ELSE Append(FormatDecimal(n \div 10), HexDigits[(n % 10) + 1])

\* rtspClientRecordHeaderFieldsSupplier, rtspClientFlushHeaderFieldsSupplier and
\* rtspClientTeardownHeaderFieldsSupplier: snprintf(sessionIdString, ..., "%" PRIX32,
\* sessionId), the text of the Session field of the request
RECURSIVE FormatHex(_)
FormatHex(n) ==
    IF n < 16 THEN <<UpperHexDigits[n + 1]>>
    ELSE Append(FormatHex(n \div 16), UpperHexDigits[(n % 16) + 1])

\* a supplier that does not increase the sequence number
SameSequenceNumber(n) == n

\* rtspClientClientGeneralHeaderFieldsSupplier: the CSeq of the next request
\* (sequenceNumber is a uint32_t; no bounded run comes near its wrap at 2^32,
\* which is also beyond the integers TLC represents)
NextSequenceNumber(n) == n + 1

\* an rtspClientAddHeaderFields that forgets the realm and nonce of the session
AuthenticationWantedForRetryOnly == needAuthentication

\* rtspClientAddHeaderFields: whether rtspClientAddAuthenticationFields is called
AuthenticationWanted == needAuthentication \/ (realmSize > 0 /\ nonceSize > 0)

\* rtspClientAddAuthenticationFields: the realm and nonce used, taken from the last
\* response when the session holds none; added: the Authorization field is added
rtspClientAddAuthenticationFields ==
    IF realmSize = 0 \/ nonceSize = 0
    THEN LET got == rtspResponseGetAuthenticationResponse(responseBuffer) IN
         IF got.ok
         THEN [added |-> TRUE, realm |-> got.realm, realmSize |-> got.realmSize,
               nonce |-> got.nonce, nonceSize |-> got.nonceSize]
         ELSE [added |-> FALSE, realm |-> realm, realmSize |-> realmSize,
               nonce |-> nonce, nonceSize |-> nonceSize]
    ELSE [added |-> TRUE, realm |-> realm, realmSize |-> realmSize,
          nonce |-> nonce, nonceSize |-> nonceSize]

\* the digits of a natural number
RECURSIVE DecimalDigits(_)
DecimalDigits(n) ==
    IF n < 10 THEN <<HexDigits[n + 1]>>
    ELSE Append(DecimalDigits(n \div 10), HexDigits[(n % 10) + 1])

\* printf "%.1f" of a value given in hundredths: the sign, the digits of the value
\* rounded to tenths, with one digit after the point
FormatOneDecimal(hundredths) ==
    LET magnitude == IF hundredths < 0 THEN 0 - hundredths ELSE hundredths
        tenths == (magnitude + 5) \div 10
    IN (IF hundredths < 0 THEN <<"-">> ELSE <<>>)
       \o DecimalDigits(tenths \div 10) \o <<".">> \o DecimalDigits(tenths % 10)

\* a content supplier that sends the volume as it is stored, without the offset
InternalVolumeWithoutOffset(vol) ==
    IF vol >= VOLUME_MIN_VALUE THEN vol ELSE VOLUME_INTERNAL_MUTED

\* raopClientSetVolumeContentSupplier: the value printed,
\* volume >= VOLUME_MIN_VALUE ? VOLUME_INTERNAL_OFFSET + volume : VOLUME_INTERNAL_MUTED
InternalVolume(vol) ==
    IF vol >= VOLUME_MIN_VALUE THEN VOLUME_INTERNAL_OFFSET + vol ELSE VOLUME_INTERNAL_MUTED

\* raopClientSetVolumeContentSupplier: the content "volume: %.1f\r\n" of a SET_PARAMETER
\* request (the content of the other requests is left out of the model)
raopClientSetVolumeContentSupplier(vol) ==
    <<"v", "o", "l", "u", "m", "e", ":", " ">>
    \o FormatOneDecimal(InternalVolume(vol)) \o <<"\r", "\n">>

\* rtspClientSendRequest: build the request of frame c's command and hand it to the
\* control connection; the send succeeds (phase becomes next) or fails
rtspClientSendRequest(c, method, next) ==
    /\ rtspRequest # "garbage"
    /\ rtspRequest' = "created"
    /\ sequenceNumber' = NextSequenceNumber(sequenceNumber)
    /\ LET a == IF AuthenticationWanted
                THEN rtspClientAddAuthenticationFields
                ELSE [added |-> FALSE, realm |-> realm, realmSize |-> realmSize,
                      nonce |-> nonce, nonceSize |-> nonceSize]
       IN /\ realm' = a.realm /\ realmSize' = a.realmSize
          /\ nonce' = a.nonce /\ nonceSize' = a.nonceSize
          /\ \E ok \in BOOLEAN :
                LET req == [method |-> method,
                            cseq |-> sequenceNumber',
                            auth |-> IF a.added THEN <<a.realm, a.nonce>> ELSE <<>>,
                            session |-> IF HasSessionField(method) THEN FormatHex(sessionId)
                                        ELSE NoHeader,
                            content |-> IF method = "SET_PARAMETER"
                                        THEN raopClientSetVolumeContentSupplier(volume)
                                        ELSE <<>>,
                            ok |-> ok,
                            retry |-> next = "sent2",
                            after |-> IF lastRequest.ok THEN lastRequest.cseq
                                      ELSE lastRequest.after,
                            afterBuilt |-> lastRequest.cseq]
                IN /\ Outcome(ok)
                   /\ lastRequest' = req
                   /\ methods' = IF next = "sent1" THEN Append(methods, method) ELSE methods
                   /\ flushed' = (flushed \/ (ok /\ method = "FLUSH"))
                   /\ cmd' = [cmd EXCEPT ![c].method = method,
                                         ![c].reqs = Append(@, req),
                                         ![c].sid0 = IF next = "sent1" THEN sessionId ELSE @,
                                         ![c].port0 = IF next = "sent1" THEN audioPort ELSE @,
                                         ![c].phase = IF ok THEN next ELSE "retF"]
    /\ UNCHANGED <<extraVars, sessionId, needAuthentication, rtspResponse, responseBuffer>>

\* rtspClientSendCommand, first half: the request is sent
rtspClientSendCommand_Send(c) ==
    /\ Runs(c)
    /\ pc[c] \in DOMAIN CallSites
    /\ cmd[c].phase = "none"
    /\ rtspClientSendRequest(c, CallSites[pc[c]], "sent1")
    /\ UNCHANGED <<extraVars, alive, pc, result, driverVars, raopVars, workerVars, frameVars,
                   cleared, observed, joinCalls, teardownVars, challenges, usableChallenge>>

\* a status check that accepts 354 like a 2xx status
StatusClassAcceptingLowBandwidth(status) ==
    IF status = 200 \/ status = RTSP_RESPONSE_LOW_BANDWIDTH THEN "ok"
    ELSE IF status > 200 /\ status < 300 THEN "ok"
    ELSE IF status # RTSP_RESPONSE_NEED_AUTHENTICATION THEN "fail"
    ELSE "auth"

\* rtspClientReceiveResponse: how the status of a response is treated
StatusClass(status) ==
    IF status = 200 THEN "ok"
    ELSE IF status > 200 /\ status < 300 THEN "ok"
    ELSE IF status # RTSP_RESPONSE_NEED_AUTHENTICATION THEN "fail"
    ELSE "auth"

\* rtspClientSendCommand, the response to the request last sent is received:
\* rtspClientReceiveResponse
rtspClientReceiveResponse(c) ==
    /\ Runs(c)
    /\ cmd[c].phase \in {"sent1", "sent2"}
    /\ rtspResponse # "garbage"
    /\ rtspResponse' = "created"
    /\ \E r \in Responses(cmd[c].method) :
          LET is401 == r.valid /\ r.status = RTSP_RESPONSE_NEED_AUTHENTICATION
              class == IF r.valid THEN StatusClass(r.status) ELSE "fail"
          IN /\ is401 => (challenges < MaxChallenges /\ Disturbances < MaxDisturbances)
             /\ Outcome(is401 \/ r = WellFormedResponse(cmd[c].method))
             /\ challenges' = IF is401 THEN challenges + 1 ELSE challenges
             /\ usableChallenge' = (usableChallenge
                    \/ (is401 /\ rtspResponseGetAuthenticationResponse(HeaderFields(r)).ok))
             /\ responseBuffer' = HeaderFields(r)
             /\ needAuthentication' = IF r.valid THEN class = "auth" ELSE needAuthentication
             /\ cmd' = [cmd EXCEPT ![c].resps = Append(@, r),
                                   ![c].phase = IF class = "fail" THEN "retF"
                                                ELSE IF @ = "sent1" THEN "rcvd1" ELSE "rcvd2"]
    /\ UNCHANGED <<extraVars, alive, pc, result, driverVars, raopVars, sessionId, sequenceNumber,
                   authVars, rtspRequest, workerVars, lastRequest, methods, flushed, frameVars, cleared, observed,
                   joinCalls, teardownVars>>

\* rtspClientSendCommand: the request is repeated when authentication is required
rtspClientSendCommand_Resend(c) ==
    /\ Runs(c)
    /\ cmd[c].phase = "rcvd1"
    /\ needAuthentication
    /\ rtspClientSendRequest(c, cmd[c].method, "sent2")
    /\ UNCHANGED <<extraVars, alive, pc, result, driverVars, raopVars, workerVars, frameVars,
                   cleared, observed, joinCalls, teardownVars, challenges, usableChallenge>>

\* rtspClientSendCommand, after the last response: the CSeq check and, for SETUP,
\* the Session and Transport:server_port values
rtspClientSendCommand_Finish(c) ==
    /\ Runs(c)
    /\ \/ cmd[c].phase = "rcvd1" /\ ~needAuthentication
       \/ cmd[c].phase = "rcvd2"
    /\ LET r == responseBuffer
           ret(b) == cmd' = [cmd EXCEPT ![c].phase = IF b THEN "retT" ELSE "retF"]
       IN IF r.cseq = "bad"
          THEN ret(FALSE) /\ UNCHANGED <<sessionId, audioPort>>
          ELSE IF cmd[c].method # "SETUP"
          THEN ret(TRUE) /\ UNCHANGED <<sessionId, audioPort>>
          ELSE IF ~rtspResponseGetSession(r).ok
          THEN ret(FALSE) /\ UNCHANGED <<sessionId, audioPort>>
          ELSE /\ sessionId' = rtspResponseGetSession(r).value
               /\ IF ~rtspResponseGetServerPort(r).ok
                  THEN ret(FALSE) /\ UNCHANGED audioPort
                  ELSE ret(TRUE) /\ audioPort' = rtspResponseGetServerPort(r).value
    /\ UNCHANGED <<extraVars, alive, pc, result, driverVars, isSendingAudio, audioThreadJoinable,
                   audioConnection, sequenceNumber, needAuthentication, authVars,
                   rtspRequest, rtspResponse, responseBuffer, workerVars, historyVars>>

\* a garbage rtspRequest or rtspResponse pointer is dereferenced: the process dies
Crash(c) ==
    /\ Runs(c)
    /\ \/ pc[c] \in DOMAIN CallSites /\ cmd[c].phase = "none" /\ rtspRequest = "garbage"
       \/ cmd[c].phase \in {"sent1", "sent2"} /\ rtspResponse = "garbage"
    /\ alive' = FALSE
    /\ UNCHANGED <<extraVars, pc, cmd, result, driverVars, raopVars, rtspVars, workerVars, historyVars>>

(***************************************************************************)
(* raopclient.c: the calls of the foreground                                *)
(***************************************************************************)
FgAt(label) == Runs("fg") /\ pc["fg"] = label

\* a teardown sequence that returns the outcome of its last step only
LastOutcome(res, ok) == ok

\* raopClientStopPlaying, raopClientCloseConnectionInternal: if(!step) result = false
Accumulate(res, ok) == res /\ ok

\* the command of frame c has returned
Returned(c) == cmd[c].phase \in {"retT", "retF"}

\* a raopClientPlayM4AFile that goes on to the next step whatever the result of a step
PlayContinueRegardless(next, ok) == next

\* raopClientPlayM4AFile: where it continues after a step ("api": it returns false)
PlayContinue(next, ok) == IF ok THEN next ELSE "api"

\* the step that follows each rtspClientSendCommand of raopClientPlayM4AFile
PlayNext ==
    [play_OPTIONS |-> "play_ANNOUNCE", play_ANNOUNCE |-> "play_SETUP",
     play_SETUP |-> "play_audio", play_RECORD |-> "play_SET_PARAMETER",
     play_SET_PARAMETER |-> "play_setSending"]

\* main calls raopClientPlayM4AFile
raopClientPlayM4AFile_Call ==
    /\ FgAt("api")
    /\ ~played
    /\ played' = TRUE
    /\ pc' = [pc EXCEPT !["fg"] = "play_OPTIONS"]
    /\ UNCHANGED <<extraVars, alive, cmd, result, playResult, playSteps, nSignals, nVolume, volume, volumeArg, raopVars,
                   rtspVars, workerVars, historyVars>>

\* raopClientPlayM4AFile: an rtspClientSendCommand has returned
raopClientPlayM4AFile_Command ==
    /\ Runs("fg")
    /\ pc["fg"] \in DOMAIN PlayNext
    /\ Returned("fg")
    /\ LET ok == cmd["fg"].phase = "retT" IN
          /\ playSteps' = Append(playSteps, [step |-> cmd["fg"].method, ok |-> ok])
          /\ playResult' = IF ok THEN playResult ELSE "false"
          /\ pc' = [pc EXCEPT !["fg"] = PlayContinue(PlayNext[pc["fg"]], ok)]
    /\ cmd' = [cmd EXCEPT !["fg"] = NoCommand]
    /\ UNCHANGED <<extraVars, alive, result, played, nSignals, nVolume, volume, volumeArg, raopVars, rtspVars,
                   workerVars, historyVars>>

\* raopClientSetupAudioConnection prints audioPort with PRIu32 as the service name: a
\* negative audioPort gives a number above 65535, for which no address is found
AudioPortNamesService == audioPort \in 1..65535

\* raopClientSetupAudioConnection: the audio connection is opened, or cannot be
raopClientSetupAudioConnection ==
    /\ FgAt("play_audio")
    /\ \E ok \in BOOLEAN :
          /\ IF AudioPortNamesService THEN Outcome(ok) ELSE ~ok /\ UNCHANGED faults
          /\ audioConnection' = ok
          /\ playSteps' = Append(playSteps, [step |-> "audio", ok |-> ok])
          /\ playResult' = IF ok THEN playResult ELSE "false"
          /\ pc' = [pc EXCEPT !["fg"] = PlayContinue("play_RECORD", ok)]
    /\ UNCHANGED <<extraVars, alive, cmd, result, played, nSignals, nVolume, volume, volumeArg, isSendingAudio,
                   audioThreadJoinable, audioPort, rtspVars, workerVars, lastRequest,
                   methods, flushed, frameVars, cleared, observed, joinCalls, teardownVars, challenges, usableChallenge>>

\* raopClientStartPlaying: isSendingAudio = true
raopClientStartPlaying_SetSending ==
    /\ FgAt("play_setSending")
    /\ isSendingAudio' = TRUE
    /\ pc' = [pc EXCEPT !["fg"] = "play_create"]
    /\ UNCHANGED <<extraVars, alive, cmd, result, driverVars, audioThreadJoinable, audioPort,
                   audioConnection, rtspVars, workerVars, historyVars>>

\* raopClientStartPlaying: the value isSendingAudio gets when pthread_create fails
SendingAfterCreateFailed == FALSE

\* raopClientStartPlaying: pthread_create
raopClientStartPlaying_Create ==
    /\ FgAt("play_create")
    /\ \/ /\ Outcome(TRUE)
          /\ thread' = "running"
          /\ wpc' = "w_seek"
          /\ pc' = [pc EXCEPT !["fg"] = "play_setJoinable"]
          /\ UNCHANGED <<isSendingAudio, playSteps, playResult>>
       \/ /\ Outcome(FALSE)
          /\ isSendingAudio' = SendingAfterCreateFailed
          /\ playSteps' = Append(playSteps, [step |-> "spawn", ok |-> FALSE])
          /\ playResult' = "false"
          /\ pc' = [pc EXCEPT !["fg"] = "api"]
          /\ UNCHANGED <<thread, wpc>>
    /\ UNCHANGED <<extraVars, alive, cmd, result, played, nSignals, nVolume, volume, volumeArg, audioThreadJoinable,
                   audioPort, audioConnection, rtspVars, sampleIndex, remainingSeconds, workerError, startTime,
                   lastRequest, methods, flushed, frameVars, cleared, observed, joinCalls, teardownVars,
                   challenges, usableChallenge>>

\* raopClientStartPlaying: audioThreadJoinable = true, and raopClientPlayM4AFile returns true
raopClientStartPlaying_SetJoinable ==
    /\ FgAt("play_setJoinable")
    /\ audioThreadJoinable' = TRUE
    /\ playSteps' = Append(playSteps, [step |-> "spawn", ok |-> TRUE])
    /\ playResult' = "true"
    /\ pc' = [pc EXCEPT !["fg"] = "api"]
    /\ UNCHANGED <<extraVars, alive, cmd, result, played, nSignals, nVolume, volume, volumeArg, isSendingAudio,
                   audioPort, audioConnection, rtspVars, workerVars, historyVars>>

\* the volumes a caller passes: below 0, 0, between, 20, 20.04, above the maximum
Volumes == {0 - 100, 0, 50, 2000, 2004, 4200}

\* the volume of the runs of Spec
UsualVolume == 2000

\* a raopClientSetVolume that stores the volume it was given
UnclampedVolume(v) == v

\* raopClientSetVolume: the value stored for the argument v
ClampedVolume(v) ==
    LET muted == IF v < VOLUME_MIN_VALUE THEN VOLUME_MUTED ELSE v
    IN IF muted > VOLUME_MAX_VALUE THEN VOLUME_MAX_VALUE ELSE muted

\* raopClientSetVolume: the volume is stored and isSendingAudio is tested
raopClientSetVolume_Call(v) ==
    /\ FgAt("api")
    /\ nVolume < MaxVolumeCalls
    /\ nVolume' = nVolume + 1
    /\ volumeArg' = v
    /\ volume' = ClampedVolume(v)
    /\ pc' = [pc EXCEPT !["fg"] = IF isSendingAudio THEN "vol_send" ELSE "api"]
    /\ UNCHANGED <<extraVars, alive, cmd, result, played, playResult, playSteps, nSignals, raopVars,
                   rtspVars, workerVars, historyVars>>

\* raopClientSetVolume: its SET_PARAMETER command has returned
raopClientSetVolume_Return ==
    /\ FgAt("vol_send")
    /\ Returned("fg")
    /\ cmd' = [cmd EXCEPT !["fg"] = NoCommand]
    /\ pc' = [pc EXCEPT !["fg"] = "api"]
    /\ UNCHANGED <<extraVars, alive, result, driverVars, raopVars, rtspVars, workerVars, historyVars>>

\* main (or another caller) calls raopClientWait: audioThreadJoinable is tested
raopClientWait_Test ==
    /\ FgAt("api")
    /\ pc' = [pc EXCEPT !["fg"] = IF audioThreadJoinable THEN "wait_setJoinable" ELSE "api"]
    /\ waitAfterError' = (audioThreadJoinable /\ workerError # "none")
    /\ UNCHANGED <<extraVars, alive, cmd, result, driverVars, raopVars, rtspVars, workerVars,
                   lastRequest, methods, flushed, frameVars, cleared, observed, joinCalls,
                   stopSteps, closeSteps, closeResult, challenges, usableChallenge, faults>>

\* raopClientWait: audioThreadJoinable = false
raopClientWait_SetJoinable ==
    /\ FgAt("wait_setJoinable")
    /\ audioThreadJoinable' = FALSE
    /\ pc' = [pc EXCEPT !["fg"] = "wait_join"]
    /\ UNCHANGED <<extraVars, alive, cmd, result, driverVars, isSendingAudio, audioPort,
                   audioConnection, rtspVars, workerVars, historyVars>>

\* raopClientWait: isSendingAudio = false after the join
raopClientWait_Clear ==
    /\ FgAt("wait_clear")
    /\ isSendingAudio' = FALSE
    /\ pc' = [pc EXCEPT !["fg"] = "api"]
    /\ UNCHANGED <<extraVars, alive, cmd, result, driverVars, audioThreadJoinable, audioPort,
                   audioConnection, rtspVars, workerVars, historyVars>>

\* the steps raopClientCloseConnectionInternal takes: pthread_cancel when the audio
\* thread is joinable, networkCloseConnection when there is an audio connection,
\* rtspClientCloseConnection
CloseSteps(cancelOk, audioOk, rtspOk) ==
    (IF audioThreadJoinable THEN <<[step |-> "cancel", ok |-> cancelOk]>> ELSE <<>>)
    \o (IF audioConnection THEN <<[step |-> "audio", ok |-> audioOk]>> ELSE <<>>)
    \o <<[step |-> "rtsp", ok |-> rtspOk]>>

\* the result variable of raopClientCloseConnectionInternal after the steps
RECURSIVE CloseResult(_, _)
CloseResult(steps, res) ==
    IF steps = <<>> THEN res ELSE CloseResult(Tail(steps), Accumulate(res, Head(steps).ok))

\* raopClientCloseConnection, after which main returns: the audio thread is cancelled
\* when it is joinable, the audio connection and the RTSP client are closed, each of the
\* three succeeds or fails. rtspClientCloseConnection frees rtspRequest and rtspResponse:
\* with a garbage pointer the call is undefined, the process dies in it or it returns
\* either result
raopClientCloseConnection ==
    /\ FgAt("api")
    /\ \E cancelOk, audioOk, rtspOk, dies \in BOOLEAN :
          LET undefined == rtspRequest = "garbage" \/ rtspResponse = "garbage"
              steps == CloseSteps(cancelOk, audioOk, rtspOk)
              failures == Cardinality({i \in DOMAIN steps :
                                          /\ ~steps[i].ok
                                          /\ ~(undefined /\ steps[i].step = "rtsp")})
          IN /\ audioThreadJoinable \/ cancelOk
             /\ audioConnection \/ audioOk
             /\ dies => undefined
             /\ failures = 0 \/ (/\ faults + failures <= MaxFaults
                                  /\ Disturbances + failures <= MaxDisturbances)
             /\ faults' = faults + failures
             /\ closeSteps' = IF dies THEN SubSeq(steps, 1, Len(steps) - 1) ELSE steps
             /\ closeResult' = IF dies THEN "none"
                               ELSE IF CloseResult(steps, TRUE) THEN "true" ELSE "false"
             /\ thread' = IF audioThreadJoinable /\ cancelOk /\ thread = "running"
                          THEN "cancelled" ELSE thread
             /\ pc' = [pc EXCEPT !["fg"] = IF dies THEN "close_rtsp" ELSE "done"]
    /\ audioThreadJoinable' = FALSE
    /\ audioConnection' = FALSE
    /\ alive' = FALSE
    /\ UNCHANGED <<extraVars, cmd, result, driverVars, isSendingAudio, audioPort, rtspVars, wpc,
                   sampleIndex, remainingSeconds, workerError, startTime, lastRequest, methods, flushed,
                   frameVars, cleared, observed, joinCalls, stopSteps, waitAfterError, challenges, usableChallenge>>

(***************************************************************************)
(* raopClientStopPlaying, run by the foreground or by the SIGINT handler    *)
(***************************************************************************)
\* a caller of the foreground calls raopClientStopPlaying
raopClientStopPlaying_Call ==
    /\ FgAt("api")
    /\ pc' = [pc EXCEPT !["fg"] = "stop_check"]
    /\ UNCHANGED <<extraVars, alive, cmd, result, driverVars, raopVars, rtspVars, workerVars,
                   historyVars>>

\* light-play.c signalHandler: a SIGINT arrives while main is between opening and
\* closing the RAOP client; the handler reads the progress and calls raopClientStopPlaying
signalHandler ==
    /\ alive
    /\ pc["sig"] = "idle"
    /\ pc["fg"] # "done"
    /\ nSignals < MaxSignals /\ Disturbances < MaxDisturbances
    /\ nSignals' = nSignals + 1
    /\ pc' = [pc EXCEPT !["sig"] = "stop_check"]
    /\ UNCHANGED <<extraVars, alive, cmd, result, played, playResult, playSteps, nVolume, volume, volumeArg, raopVars,
                   rtspVars, workerVars, historyVars>>

\* raopClientStopPlaying: return true if nothing to stop (this call has taken no step)
raopClientStopPlaying_Check(c) ==
    /\ Runs(c)
    /\ pc[c] = "stop_check"
    /\ pc' = [pc EXCEPT ![c] = IF isSendingAudio THEN "stop_clear" ELSE ReturnPc(c)]
    /\ result' = IF isSendingAudio THEN result ELSE [result EXCEPT ![c] = TRUE]
    /\ stopSteps' = IF isSendingAudio THEN stopSteps ELSE [stopSteps EXCEPT ![c] = <<>>]
    /\ UNCHANGED <<extraVars, alive, cmd, driverVars, raopVars, rtspVars, workerVars,
                   lastRequest, methods, flushed, frameVars, cleared, observed, joinCalls,
                   closeSteps, closeResult, waitAfterError, challenges, usableChallenge, faults>>

\* raopClientStopPlaying: isSendingAudio = false; result = true
raopClientStopPlaying_Clear(c) ==
    /\ Runs(c)
    /\ pc[c] = "stop_clear"
    /\ isSendingAudio' = FALSE
    /\ result' = [result EXCEPT ![c] = TRUE]
    /\ cleared' = TRUE
    /\ stopSteps' = [stopSteps EXCEPT ![c] = <<>>]
    /\ pc' = [pc EXCEPT ![c] = "stop_test"]
    /\ UNCHANGED <<extraVars, alive, cmd, driverVars, audioThreadJoinable, audioPort, audioConnection,
                   rtspVars, workerVars, lastRequest, methods, flushed, frameVars, observed,
                   joinCalls, closeSteps, closeResult, waitAfterError, challenges, usableChallenge, faults>>

\* raopClientStopPlaying: audioThreadJoinable is tested
raopClientStopPlaying_Test(c) ==
    /\ Runs(c)
    /\ pc[c] = "stop_test"
    /\ pc' = [pc EXCEPT ![c] = IF audioThreadJoinable THEN "stop_setJoinable" ELSE "stop_FLUSH"]
    /\ UNCHANGED <<extraVars, alive, cmd, result, driverVars, raopVars, rtspVars, workerVars,
                   historyVars>>

\* raopClientStopPlaying: audioThreadJoinable = false
raopClientStopPlaying_SetJoinable(c) ==
    /\ Runs(c)
    /\ pc[c] = "stop_setJoinable"
    /\ audioThreadJoinable' = FALSE
    /\ pc' = [pc EXCEPT ![c] = "stop_join"]
    /\ UNCHANGED <<extraVars, alive, cmd, result, driverVars, isSendingAudio, audioPort,
                   audioConnection, rtspVars, workerVars, historyVars>>

\* pthread_join(audioThread) in raopClientStopPlaying or raopClientWait: it returns 0
\* once the thread has ended, or it reports an error. Joining a thread that was joined
\* before is undefined: the call may report an error or not.
pthread_join(c) ==
    /\ Runs(c)
    /\ pc[c] \in {"stop_join", "wait_join"}
    /\ joinCalls' = joinCalls + 1
    /\ \E ok \in BOOLEAN :
          /\ \/ thread = "exited" /\ ok /\ UNCHANGED faults
             \/ thread = "joined" /\ UNCHANGED faults
             \/ thread # "joined" /\ ~ok /\ Outcome(FALSE)
          /\ thread' = IF ok THEN "joined" ELSE thread
          /\ IF pc[c] = "stop_join"
             THEN /\ result' = [result EXCEPT ![c] = Accumulate(@, ok)]
                  /\ stopSteps' = [stopSteps EXCEPT ![c] = Append(@, [step |-> "join", ok |-> ok])]
                  /\ pc' = [pc EXCEPT ![c] = "stop_FLUSH"]
             ELSE /\ pc' = [pc EXCEPT ![c] = IF ok THEN "wait_clear" ELSE ReturnPc(c)]
                  /\ UNCHANGED <<result, stopSteps>>
    /\ UNCHANGED <<extraVars, alive, cmd, driverVars, raopVars, rtspVars, wpc, sampleIndex,
                   remainingSeconds, workerError, startTime, lastRequest, methods, flushed, frameVars,
                   cleared, observed, closeSteps, closeResult, waitAfterError, challenges,
                   usableChallenge>>

\* raopClientStopPlaying: the FLUSH or the TEARDOWN command has returned
raopClientStopPlaying_Command(c) ==
    /\ Runs(c)
    /\ pc[c] \in {"stop_FLUSH", "stop_TEARDOWN"}
    /\ Returned(c)
    /\ result' = [result EXCEPT ![c] = Accumulate(@, cmd[c].phase = "retT")]
    /\ stopSteps' = [stopSteps EXCEPT ![c] = Append(@, [step |-> cmd[c].method,
                                                          ok |-> cmd[c].phase = "retT"])]
    /\ pc' = [pc EXCEPT ![c] = IF @ = "stop_FLUSH" THEN "stop_TEARDOWN" ELSE ReturnPc(c)]
    /\ cmd' = [cmd EXCEPT ![c] = NoCommand]
    /\ UNCHANGED <<extraVars, alive, driverVars, raopVars, rtspVars, workerVars, lastRequest, methods,
                   flushed, frameVars, cleared, observed, joinCalls, closeSteps, closeResult,
                   waitAfterError, challenges, usableChallenge, faults>>

(***************************************************************************)
(* raopClientSendAudio: the audio thread                                    *)
(***************************************************************************)
WorkerAt(label) == alive /\ thread = "running" /\ wpc = label

m4aFileHasMoreSamples == sampleIndex < NumSamples

\* a send loop that runs to the end of the file whatever isSendingAudio is
SendLoopIgnoringFlag(hasMoreSamples, sending) == hasMoreSamples

\* raopClientSendAudioMessages: the condition of the send loop
SendLoopCondition(hasMoreSamples, sending) == hasMoreSamples /\ sending

\* raopClientWaitForBufferedAudio: the condition of the drain-wait loop
DrainLoopCondition(sending, seconds) == sending /\ seconds > 0

\* raopClientSendAudio before the send loop: m4aFileSetSampleOffset (rejected when the
\* offset is past the last sample) and clock_gettime for playingTimeOffset; when either
\* fails the thread clears audioThreadJoinable and ends
raopClientSendAudio_Begin ==
    /\ WorkerAt("w_seek")
    /\ \E seconds \in StartSeconds, long \in LongLimbs, ok \in BOOLEAN :
          LET seek == SeekOutcome[seconds][long] IN
          /\ startTime' = seconds
          /\ Outcome(ok /\ seek.ok)
          /\ IF ok /\ seek.ok
             THEN wpc' = "w_loop" /\ sampleIndex' = seek.sampleIndex /\ UNCHANGED workerError
             ELSE wpc' = "w_clearJoinable" /\ workerError' = "begin" /\ UNCHANGED sampleIndex
    /\ UNCHANGED <<extraVars, alive, pc, cmd, result, driverVars, raopVars, rtspVars, thread,
                   remainingSeconds, lastRequest, methods, flushed, frameVars, cleared, observed,
                   joinCalls, teardownVars, challenges, usableChallenge>>

\* raopClientSendAudioMessages: the loop condition is evaluated (isSendingAudio is read
\* only when there are more samples)
raopClientSendAudioMessages_Loop ==
    /\ WorkerAt("w_loop")
    /\ wpc' = IF SendLoopCondition(m4aFileHasMoreSamples, isSendingAudio)
              THEN "w_send" ELSE "w_drainInit"
    /\ observed' = (observed \/ (m4aFileHasMoreSamples /\ ~isSendingAudio))
    /\ UNCHANGED <<extraVars, alive, pc, cmd, result, driverVars, raopVars, rtspVars, thread,
                   sampleIndex, remainingSeconds, workerError, startTime, lastRequest, methods, flushed, frameVars, cleared,
                   joinCalls, teardownVars, challenges, usableChallenge, faults>>

\* raopClientSendAudioMessages, the body of the loop: m4aFileGetNextSample, then
\* networkSendMessage on the audio connection; the frame is written, or one of the two fails
raopClientSendAudioMessages_Send ==
    /\ WorkerAt("w_send")
    /\ \/ /\ Outcome(TRUE)
          /\ wpc' = "w_loop"
          /\ sampleIndex' = sampleIndex + 1
          /\ frames' = frames + 1
          /\ framesAfterFlush' = framesAfterFlush
                + (IF flushed THEN 1 ELSE 0)
          /\ framesAfterClear' = framesAfterClear + (IF cleared THEN 1 ELSE 0)
          /\ framesAfterObserve' = framesAfterObserve + (IF observed THEN 1 ELSE 0)
          /\ framesAfterError' = framesAfterError + (IF workerError # "none" THEN 1 ELSE 0)
          /\ frameLog' = Append(frameLog, sampleIndex)
          /\ lastMessage' = AudioMessage(SampleSize(sampleIndex))
          /\ UNCHANGED workerError
       \/ /\ Outcome(FALSE)
          /\ wpc' = "w_clearJoinable"
          /\ workerError' = "send"
          /\ sampleIndex' \in {sampleIndex, sampleIndex + 1}
          /\ UNCHANGED frameVars
    /\ UNCHANGED <<extraVars, alive, pc, cmd, result, driverVars, raopVars, rtspVars, thread,
                   remainingSeconds, startTime, lastRequest, methods, flushed, cleared, observed,
                   joinCalls, teardownVars, challenges, usableChallenge>>

\* raopClientWaitForBufferedAudio: progress and length are read (or the clock fails);
\* remainingSeconds is length - progress + 1, or 0 when nothing is buffered
raopClientWaitForBufferedAudio_Init ==
    /\ WorkerAt("w_drainInit")
    /\ \/ /\ Outcome(TRUE) /\ wpc' = "w_drain" /\ remainingSeconds' \in 0..MaxDrain
          /\ UNCHANGED workerError
       \/ /\ Outcome(FALSE) /\ wpc' = "w_clearJoinable" /\ workerError' = "drain"
          /\ UNCHANGED remainingSeconds
    /\ UNCHANGED <<extraVars, alive, pc, cmd, result, driverVars, raopVars, rtspVars, thread,
                   sampleIndex, startTime, lastRequest, methods, flushed, frameVars, cleared, observed,
                   joinCalls, teardownVars, challenges, usableChallenge>>

\* raopClientWaitForBufferedAudio: the loop condition is evaluated
raopClientWaitForBufferedAudio_Loop ==
    /\ WorkerAt("w_drain")
    /\ wpc' = IF DrainLoopCondition(isSendingAudio, remainingSeconds)
              THEN "w_sleep" ELSE "w_clearJoinable"
    /\ observed' = (observed \/ ~isSendingAudio)
    /\ UNCHANGED <<extraVars, alive, pc, cmd, result, driverVars, raopVars, rtspVars, thread,
                   sampleIndex, remainingSeconds, workerError, startTime, lastRequest, methods, flushed, frameVars, cleared,
                   joinCalls, teardownVars, challenges, usableChallenge, faults>>

\* a drain-wait that does not count the seconds it slept
SecondsNotCounted(seconds) == seconds

\* raopClientWaitForBufferedAudio: remainingSeconds--
SecondsAfterSleep(seconds) == seconds - 1

\* sleep(1) returns 0, or is interrupted
raopClientWaitForBufferedAudio_Sleep ==
    /\ WorkerAt("w_sleep")
    /\ remainingSeconds' \in {SecondsAfterSleep(remainingSeconds), 0}
    /\ wpc' = "w_drain"
    /\ UNCHANGED <<extraVars, alive, pc, cmd, result, driverVars, raopVars, rtspVars, thread,
                   sampleIndex, workerError, startTime, historyVars>>

\* raopClientSendAudio: audioThreadJoinable = false, on every way out
raopClientSendAudio_ClearJoinable ==
    /\ WorkerAt("w_clearJoinable")
    /\ audioThreadJoinable' = FALSE
    /\ wpc' = "w_exit"
    /\ UNCHANGED <<extraVars, alive, pc, cmd, result, driverVars, isSendingAudio, audioPort,
                   audioConnection, rtspVars, thread, sampleIndex, remainingSeconds,
                   workerError, startTime, historyVars>>

\* raopClientSendAudio: pthread_exit
raopClientSendAudio_Exit ==
    /\ WorkerAt("w_exit")
    /\ thread' = "exited"
    /\ wpc' = "exited"
    /\ UNCHANGED <<extraVars, alive, pc, cmd, result, driverVars, raopVars, rtspVars, sampleIndex,
                   remainingSeconds, workerError, startTime, historyVars>>

(***************************************************************************)
(* The specification                                                        *)
(***************************************************************************)
Next ==
    \/ \E c \in Frames : rtspClientSendCommand_Send(c)
    \/ \E c \in Frames : rtspClientReceiveResponse(c)
    \/ \E c \in Frames : rtspClientSendCommand_Resend(c)
    \/ \E c \in Frames : rtspClientSendCommand_Finish(c)
    \/ \E c \in Frames : Crash(c)
    \/ raopClientPlayM4AFile_Call
    \/ raopClientPlayM4AFile_Command
    \/ raopClientSetupAudioConnection
    \/ raopClientStartPlaying_SetSending
    \/ raopClientStartPlaying_Create
    \/ raopClientStartPlaying_SetJoinable
    \/ raopClientSetVolume_Call(UsualVolume)
    \/ raopClientSetVolume_Return
    \/ raopClientWait_Test
    \/ raopClientWait_SetJoinable
    \/ raopClientWait_Clear
    \/ raopClientCloseConnection
    \/ raopClientStopPlaying_Call
    \/ signalHandler
    \/ \E c \in Frames : raopClientStopPlaying_Check(c)
    \/ \E c \in Frames : raopClientStopPlaying_Clear(c)
    \/ \E c \in Frames : raopClientStopPlaying_Test(c)
    \/ \E c \in Frames : raopClientStopPlaying_SetJoinable(c)
    \/ \E c \in Frames : pthread_join(c)
    \/ \E c \in Frames : raopClientStopPlaying_Command(c)
    \/ raopClientSendAudio_Begin
    \/ raopClientSendAudioMessages_Loop
    \/ raopClientSendAudioMessages_Send
    \/ raopClientWaitForBufferedAudio_Init
    \/ raopClientWaitForBufferedAudio_Loop
    \/ raopClientWaitForBufferedAudio_Sleep
    \/ raopClientSendAudio_ClearJoinable
    \/ raopClientSendAudio_Exit

Spec == Init /\ [][Next]_vars

\* the main thread alone, from raopClientPlayM4AFile on, with raopClientSetVolume called
\* with each of the volumes, before, during or after raopClientPlayM4AFile
VolumeNext ==
    \/ \E c \in Frames : rtspClientSendCommand_Send(c)
    \/ \E c \in Frames : rtspClientReceiveResponse(c)
    \/ \E c \in Frames : rtspClientSendCommand_Resend(c)
    \/ \E c \in Frames : rtspClientSendCommand_Finish(c)
    \/ \E c \in Frames : Crash(c)
    \/ raopClientPlayM4AFile_Call
    \/ raopClientPlayM4AFile_Command
    \/ raopClientSetupAudioConnection
    \/ raopClientStartPlaying_SetSending
    \/ raopClientStartPlaying_Create
    \/ raopClientStartPlaying_SetJoinable
    \/ \E v \in Volumes : raopClientSetVolume_Call(v)
    \/ raopClientSetVolume_Return
    \/ raopClientWait_Test
    \/ raopClientWait_SetJoinable
    \/ raopClientWait_Clear
    \/ \E c \in Frames : pthread_join(c)
    \/ raopClientSendAudio_Begin
    \/ raopClientSendAudio_ClearJoinable
    \/ raopClientSendAudio_Exit

VolumeSpec == Init /\ [][VolumeNext]_vars

\* the steps of the audio thread, and the steps of the main thread inside a function of
\* raopclient.c (a SIGINT, and a call of one of these functions by main, may never come)
AudioThread ==
    \/ raopClientSendAudio_Begin
    \/ raopClientSendAudioMessages_Loop
    \/ raopClientSendAudioMessages_Send
    \/ raopClientWaitForBufferedAudio_Init
    \/ raopClientWaitForBufferedAudio_Loop
    \/ raopClientWaitForBufferedAudio_Sleep
    \/ raopClientSendAudio_ClearJoinable
    \/ raopClientSendAudio_Exit

MainThread ==
    \/ \E c \in Frames : rtspClientSendCommand_Send(c)
    \/ \E c \in Frames : rtspClientReceiveResponse(c)
    \/ \E c \in Frames : rtspClientSendCommand_Resend(c)
    \/ \E c \in Frames : rtspClientSendCommand_Finish(c)
    \/ \E c \in Frames : Crash(c)
    \/ raopClientPlayM4AFile_Command
    \/ raopClientSetupAudioConnection
    \/ raopClientStartPlaying_SetSending
    \/ raopClientStartPlaying_Create
    \/ raopClientStartPlaying_SetJoinable
    \/ raopClientSetVolume_Return
    \/ raopClientWait_SetJoinable
    \/ raopClientWait_Clear
    \/ \E c \in Frames : raopClientStopPlaying_Check(c)
    \/ \E c \in Frames : raopClientStopPlaying_Clear(c)
    \/ \E c \in Frames : raopClientStopPlaying_Test(c)
    \/ \E c \in Frames : raopClientStopPlaying_SetJoinable(c)
    \/ \E c \in Frames : pthread_join(c)
    \/ \E c \in Frames : raopClientStopPlaying_Command(c)

\* the runs with at most MaxFairDisturbances signals, challenges and failures together
MaxFairDisturbances == 1
FewDisturbances == Disturbances <= MaxFairDisturbances
FairNext == Next /\ FewDisturbances'

\* both threads are scheduled again and again, and the calls they make (send, recv,
\* sleep, pthread_join of a thread that has ended) return
FairSpec ==
    /\ Init /\ [][FairNext]_vars
    /\ WF_vars(AudioThread /\ FewDisturbances')
    /\ WF_vars(MainThread /\ FewDisturbances')

(***************************************************************************)
(* Properties                                                               *)
(***************************************************************************)

\* C1: in every interleaving of the foreground, the SIGINT handler and the audio thread,
\* no audio frame is written to the audio connection after a FLUSH request has been sent
\* (raopClientStopPlaying joins the audio thread before it sends FLUSH and TEARDOWN).
C1_NoFrameAfterFlush == framesAfterFlush = 0

\* C2: across every interleaving of raopClientWait, raopClientStopPlaying (also from the
\* SIGINT handler, at any point of the foreground) and raopClientCloseConnection,
\* pthread_join is called on the audio thread at most once.
C2_JoinedAtMostOnce == joinCalls <= 1

\* C3: once the audio thread has read isSendingAudio == false in a loop condition it
\* writes no further audio frame, and at most one frame is written after
\* raopClientStopPlaying has cleared isSendingAudio.
C3_StopsWithinOneFrame ==
    /\ observed => framesAfterObserve = 0
    /\ framesAfterClear <= 1

\* C3: raopClientStopPlaying cleared the flag while a frame was in progress; that frame was
\* written, the audio thread then read the flag and left the loop with samples remaining
C3_Witness ==
    /\ cleared /\ observed
    /\ framesAfterClear = 1
    /\ sampleIndex < NumSamples
    /\ thread = "exited"

\* the steps of raopClientPlayM4AFile, in the order of the specification
PlayOrder == <<"OPTIONS", "ANNOUNCE", "SETUP", "audio", "RECORD", "SET_PARAMETER", "spawn">>

\* the foreground is inside raopClientPlayM4AFile
InPlay == pc["fg"] \in DOMAIN PlayNext \cup {"play_audio", "play_setSending", "play_create", "play_setJoinable"}

\* C4: raopClientPlayM4AFile performs OPTIONS, ANNOUNCE, SETUP, the opening of the audio
\* connection, RECORD, SET_PARAMETER and the start of the audio thread in that order; when
\* a step fails no later step is performed, it returns false, no audio thread exists and
\* isSendingAudio is false from then on; it returns true only after all seven steps.
C4_PlayStepsInOrder ==
    /\ Len(playSteps) <= Len(PlayOrder)
    /\ \A i \in DOMAIN playSteps :
          /\ playSteps[i].step = PlayOrder[i]
          /\ i < Len(playSteps) => playSteps[i].ok
    /\ (\E i \in DOMAIN playSteps : ~playSteps[i].ok) =>
          /\ playResult = "false"
          /\ ~InPlay
          /\ thread = "none"
          /\ ~isSendingAudio
    /\ playResult = "false" => \E i \in DOMAIN playSteps : ~playSteps[i].ok
    /\ playResult = "true" =>
          /\ Len(playSteps) = Len(PlayOrder)
          /\ \A i \in DOMAIN playSteps : playSteps[i].ok

\* C4: the last step, the start of the audio thread, failed after isSendingAudio was set
C4_Witness ==
    /\ playResult = "false"
    /\ Len(playSteps) = Len(PlayOrder)
    /\ ~isSendingAudio /\ thread = "none"

\* the methods sent follow OPTIONS, ANNOUNCE, SETUP, RECORD, SET_PARAMETER+, [FLUSH, TEARDOWN]
FollowsMethodOrder(ms) ==
    \A i \in DOMAIN ms :
        IF i <= 5
        THEN ms[i] = <<"OPTIONS", "ANNOUNCE", "SETUP", "RECORD", "SET_PARAMETER">>[i]
        ELSE \/ ms[i] = "SET_PARAMETER" /\ ms[i - 1] = "SET_PARAMETER"
             \/ ms[i] = "FLUSH" /\ ms[i - 1] = "SET_PARAMETER"
             \/ ms[i] = "TEARDOWN" /\ ms[i - 1] = "FLUSH"

\* C5: for one raopClientPlayM4AFile followed by any calls of raopClientSetVolume,
\* raopClientWait and raopClientStopPlaying (also from the SIGINT handler), the methods of
\* the commands sent, retransmissions collapsed, follow the order OPTIONS, ANNOUNCE,
\* SETUP, RECORD, one or more SET_PARAMETER, then optionally FLUSH and TEARDOWN; no
\* request is sent after TEARDOWN.
C5_MethodOrder == FollowsMethodOrder(methods)

Is401(r) == r.valid /\ r.status = RTSP_RESPONSE_NEED_AUTHENTICATION

\* the realm and nonce of the challenge of response r, when it carries a usable one
ChallengeOf(r) == rtspResponseGetAuthenticationResponse(HeaderFields(r))

\* C7: when the response to the repeated request, which carries an Authorization field,
\* is again a 401, rtspClientSendCommand returns false, whatever the method.
C7_Second401Fails ==
    \A c \in Frames :
        (/\ Len(cmd[c].resps) = 2 /\ Is401(cmd[c].resps[2])
         /\ Len(cmd[c].reqs) = 2 /\ cmd[c].reqs[2].auth # <<>>) => cmd[c].phase # "retT"

\* C8: when the first response to a command is a 401 with a usable challenge, the same
\* method is sent once more, with an Authorization field built from the realm and nonce
\* of that challenge; no command sends more than two requests.
C8_RetryCarriesChallenge ==
    \A c \in Frames :
        /\ Len(cmd[c].reqs) <= 2
        /\ (Len(cmd[c].resps) >= 1 /\ Is401(cmd[c].resps[1]) /\ ChallengeOf(cmd[c].resps[1]).ok) =>
              /\ Returned(c) => Len(cmd[c].reqs) = 2
              /\ Len(cmd[c].reqs) = 2 =>
                    /\ cmd[c].reqs[2].method = cmd[c].reqs[1].method
                    /\ cmd[c].reqs[2].auth = <<ChallengeOf(cmd[c].resps[1]).realm,
                                               ChallengeOf(cmd[c].resps[1]).nonce>>

\* C9: when a 401 carries no usable challenge, rtspClientSendCommand does not repeat the
\* request without an Authorization field and does not return true.
C9_UnusableChallengeFails ==
    \A c \in Frames :
        (Len(cmd[c].resps) >= 1 /\ Is401(cmd[c].resps[1]) /\ ~ChallengeOf(cmd[c].resps[1]).ok) =>
            /\ \A i \in DOMAIN cmd[c].reqs :
                  (i >= 2 /\ cmd[c].reqs[i].ok) => cmd[c].reqs[i].auth # <<>>
            /\ cmd[c].phase # "retT"

\* response r has a status outside 200..299 that is not 401
IsFailureStatus(r) ==
    /\ r.valid
    /\ r.status < 200 \/ r.status > 299
    /\ r.status # RTSP_RESPONSE_NEED_AUTHENTICATION

\* C10: when a response has status 354 or another status outside 200..299 except 401,
\* rtspClientSendCommand returns false and sends no request after it; for SETUP neither
\* sessionId nor audioPort is modified.
C10_FailureStatusFails ==
    \A c \in Frames : \A i \in DOMAIN cmd[c].resps :
        IsFailureStatus(cmd[c].resps[i]) =>
            /\ i = Len(cmd[c].resps)
            /\ Len(cmd[c].reqs) = i
            /\ cmd[c].phase = "retF"
            /\ cmd[c].method = "SETUP" =>
                  (sessionId = cmd[c].sid0 /\ audioPort = cmd[c].port0)

\* C10: the repeated SETUP request, sent after a 401, got status 354
C10_Witness ==
    /\ cmd["fg"].method = "SETUP"
    /\ Len(cmd["fg"].resps) = 2
    /\ cmd["fg"].resps[2].status = RTSP_RESPONSE_LOW_BANDWIDTH
    /\ cmd["fg"].phase = "retF"

\* the last response frame c's command received
LastResponse(c) == cmd[c].resps[Len(cmd[c].resps)]

\* the number a text of hexadecimal digits denotes
HexNumber(text) == ScanDigits(text, 16, 0, 0).value

\* the number a text of decimal digits denotes
DecimalNumber(text) == ScanDigits(text, 10, 0, 0).value

\* C11: when rtspClientSendCommand(SETUP) returns true the response carried a Session and
\* a Transport server_port, sessionId is the hexadecimal Session value and audioPort the
\* server_port value; when SETUP failed raopClientPlayM4AFile sends no RECORD and opens
\* no audio connection.
C11_SetupAssignsSessionAndPort ==
    /\ \A c \in Frames :
          (cmd[c].method = "SETUP" /\ cmd[c].phase = "retT") =>
              /\ LastResponse(c).session # NoHeader
              /\ LastResponse(c).port # NoHeader
              /\ sessionId = HexNumber(LastResponse(c).session)
              /\ audioPort = DecimalNumber(LastResponse(c).port)
    /\ (\E i \in DOMAIN playSteps : playSteps[i].step = "SETUP" /\ ~playSteps[i].ok) =>
          /\ ~audioConnection
          /\ \A i \in DOMAIN methods : methods[i] # "RECORD"

\* the SETUP command of raopClientPlayM4AFile has returned true
SetupSucceeded == \E i \in DOMAIN playSteps : playSteps[i].step = "SETUP" /\ playSteps[i].ok

\* C12: every RECORD, FLUSH and TEARDOWN request carries a Session field whose value is
\* sessionId, no request carries a Session field before SETUP has succeeded, and sessionId
\* is only ever assigned the Session value of the SETUP response, before SETUP has succeeded.
C12_SessionOnRecordFlushTeardown ==
    /\ [](lastRequest.method \in {"RECORD", "FLUSH", "TEARDOWN"} =>
             /\ lastRequest.session # NoHeader
             /\ HexNumber(lastRequest.session) = sessionId)
    /\ [](lastRequest.session # NoHeader => SetupSucceeded)
    /\ [][sessionId' # sessionId =>
             /\ ~SetupSucceeded
             /\ cmd["fg"].method = "SETUP"
             /\ sessionId' = HexNumber(LastResponse("fg").session)]_vars

\* C12: the SIGINT handler has sent TEARDOWN with the session id 16 of the SETUP response
C12_Witness ==
    /\ lastRequest.method = "TEARDOWN" /\ lastRequest.ok
    /\ lastRequest.session = <<"1", "0">>
    /\ pc["sig"] = "stop_TEARDOWN"
    /\ sessionId = 16

\* C13: a request carries an Authorization field only after a 401 response has been
\* received, and every request built after a 401 whose challenge gives a realm and a nonce
\* has been received, the repeated request and those of all later commands, carries one.
C13_AuthorizationFollowsChallenge ==
    /\ [](lastRequest.auth # <<>> => challenges > 0)
    /\ [][(lastRequest' # lastRequest /\ usableChallenge) => lastRequest'.auth # <<>>]_vars

\* C13: OPTIONS was challenged and repeated; the first ANNOUNCE request carries the
\* Authorization field although no response to it has been received
C13_Witness ==
    /\ usableChallenge
    /\ lastRequest.method = "ANNOUNCE" /\ ~lastRequest.retry
    /\ lastRequest.auth = <<"AppleTV", "abcdef">>
    /\ ~needAuthentication

\* frame c is inside raopClientStopPlaying, past the point where it cleared isSendingAudio
InStop(c) == pc[c] \in {"stop_test", "stop_setJoinable", "stop_join", "stop_FLUSH", "stop_TEARDOWN"}

\* the names of the steps of a log, in order
StepNames(steps) == [i \in DOMAIN steps |-> steps[i].step]

\* every step of a log succeeded
AllSucceeded(steps) == \A i \in DOMAIN steps : steps[i].ok

\* seq is the start of one of the sequences
IsPrefixOfOne(seq, sequences) ==
    \E full \in sequences : Len(seq) <= Len(full) /\ seq = SubSeq(full, 1, Len(seq))

\* C14: raopClientStopPlaying, once it has cleared isSendingAudio, performs the join (when
\* the thread is joinable), FLUSH and TEARDOWN in that order whatever the outcome of each,
\* and returns true iff all of them succeeded; raopClientCloseConnection attempts the
\* cancellation (when the thread is joinable), the closing of the audio connection (when
\* there is one) and the closing of the RTSP client whatever the outcome of each, and
\* returns true iff all of them succeeded.
C14_TeardownAccumulatesFailures ==
    /\ [](\A c \in Frames :
             /\ IsPrefixOfOne(StepNames(stopSteps[c]),
                              {<<"join", "FLUSH", "TEARDOWN">>, <<"FLUSH", "TEARDOWN">>})
             /\ (InStop(c) \/ stopSteps[c] # <<>>) => (result[c] <=> AllSucceeded(stopSteps[c]))
             /\ (stopSteps[c] # <<>> /\ ~InStop(c)) =>
                    StepNames(stopSteps[c])[Len(stopSteps[c])] = "TEARDOWN")
    /\ [](closeResult # "none" =>
             /\ StepNames(closeSteps) \in {<<"cancel", "audio", "rtsp">>, <<"cancel", "rtsp">>,
                                           <<"audio", "rtsp">>, <<"rtsp">>}
             /\ closeResult = "true" <=> AllSucceeded(closeSteps))
    /\ [][closeSteps' # closeSteps =>
             /\ audioThreadJoinable <=> (\E i \in DOMAIN closeSteps' : closeSteps'[i].step = "cancel")
             /\ audioConnection <=> (\E i \in DOMAIN closeSteps' : closeSteps'[i].step = "audio")]_vars

\* C14: raopClientStopPlaying joined the thread, its FLUSH failed, its TEARDOWN succeeded
\* and it returned false; raopClientCloseConnection then failed to close the audio
\* connection, closed the RTSP client and returned false
C14_Witness ==
    /\ stopSteps["fg"] = <<[step |-> "join", ok |-> TRUE], [step |-> "FLUSH", ok |-> FALSE],
                           [step |-> "TEARDOWN", ok |-> TRUE]>>
    /\ result["fg"] = FALSE
    /\ closeSteps = <<[step |-> "audio", ok |-> FALSE], [step |-> "rtsp", ok |-> TRUE]>>
    /\ closeResult = "false"

\* C15: once m4aFileGetNextSample or networkSendMessage has failed the audio thread writes
\* no further frame and is on its way out, and a raopClientWait called after the failure
\* returns true (unless pthread_join itself is made to fail by the environment).
C15_SendFailureEndsThreadQuietly ==
    /\ [](workerError = "send" =>
             /\ framesAfterError = 0
             /\ wpc \in {"w_clearJoinable", "w_exit", "exited"})
    /\ [][(/\ pc["fg"] = "wait_join" /\ pc'["fg"] # "wait_join"
           /\ waitAfterError /\ workerError = "send"
           /\ faults' = faults) => pc'["fg"] = "wait_clear"]_vars

\* the sample index floor(timescale * seconds / 4096), without any width
ExactSampleOffset(seconds) == DivFramesPerPacket(MulLimbs(Limbs(seconds), Timescale))

\* the audio thread has left the send loop and has met no error, and
\* raopClientStopPlaying has not cleared isSendingAudio
RunToEnd ==
    /\ wpc \in {"w_drainInit", "w_drain", "w_sleep", "w_clearJoinable", "w_exit", "exited"}
    /\ workerError = "none"
    /\ ~cleared

\* C16: the frames written to the audio connection carry the samples k, k+1, k+2, ...
\* in this order, without gap or repetition, k = floor(timescale * start_time.seconds
\* / 4096); in a run without stop and without error the last frame written carries
\* sample samples_count - 1
C16_FramesAreConsecutiveSamples ==
    /\ \A i \in 1..Len(frameLog) :
          IF i = 1 THEN Limbs(frameLog[i]) = ExactSampleOffset(startTime)
          ELSE frameLog[i] = frameLog[i - 1] + 1
    /\ RunToEnd => frameLog # <<>> /\ frameLog[Len(frameLog)] = NumSamples - 1

\* the parts of C16 apart from the value of k: consecutive samples, up to the last one
C16_ConsecutiveUpToLast ==
    /\ \A i \in 2..Len(frameLog) : frameLog[i] = frameLog[i - 1] + 1
    /\ RunToEnd => frameLog # <<>> /\ frameLog[Len(frameLog)] = NumSamples - 1
    /\ frameLog # <<>> /\ startTime = 0 => frameLog[1] = 0

\* frame c is inside raopClientStopPlaying; the foreground is inside raopClientWait
InStopCall(c) == pc[c] \in {"stop_check", "stop_clear"} \/ InStop(c)
InWaitCall == pc["fg"] \in {"wait_setJoinable", "wait_join", "wait_clear"}

WorkerFailed == workerError # "none" /\ wpc = "exited"
PlayReturned == playResult # "none"

\* C18: when the audio thread ends because of an error, then in every interleaving with
\* raopClientPlayM4AFile audioThreadJoinable is false afterwards: the next raopClientWait
\* does not join (and so does not block) and raopClientCloseConnection does not cancel
\* the thread
C18_FailedThreadIsNotJoinable ==
    /\ [](alive /\ WorkerFailed /\ PlayReturned => ~audioThreadJoinable)
    /\ [][(WorkerFailed /\ PlayReturned /\ pc["fg"] = "api")
             => pc'["fg"] # "wait_setJoinable"]_vars
    /\ [](WorkerFailed /\ PlayReturned
             => \A i \in DOMAIN closeSteps : closeSteps[i].step # "cancel")

\* C19: for every sample size the parser delivers, the two bytes at 2..3 of the audio
\* message sent hold sample_size + 12, most significant byte first, and the message
\* written is exactly 16 + sample_size bytes long
C19_PacketLengthIsSampleSizePlus12 ==
    lastMessage # NoMessage =>
        /\ lastMessage.packetLength[1] * ByteBase + lastMessage.packetLength[2]
              = lastMessage.sampleSize + 12
        /\ lastMessage.size = Limbs(16 + lastMessage.sampleSize)

\* the parts of C19 that hold: the size of every message, and the length field of the
\* messages whose sample is shorter than 65524 bytes
C19_HoldsForShortSamples ==
    lastMessage # NoMessage =>
        /\ lastMessage.size = Limbs(16 + lastMessage.sampleSize)
        /\ lastMessage.sampleSize + 12 < LimbBase =>
              lastMessage.packetLength[1] * ByteBase + lastMessage.packetLength[2]
                 = lastMessage.sampleSize + 12

\* the number a text "[-]digits.digit" denotes, in tenths, when it has this form
ReadOneDecimal(text) ==
    LET negative == text # <<>> /\ Head(text) = "-"
        unsigned == IF negative THEN Tail(text) ELSE text
        whole == ScanDigits(unsigned, 10, 0, 0)
        rest == SubSeq(unsigned, whole.count + 1, Len(unsigned))
        ok == /\ whole.count > 0 /\ Len(rest) = 2 /\ rest[1] = "."
              /\ DigitValue(rest[2]) < 10
        tenths == IF ok THEN whole.value * 10 + DigitValue(rest[2]) ELSE 0
    IN [ok |-> ok, tenths |-> IF negative THEN 0 - tenths ELSE tenths]

\* the text is "volume: X\r\n" where X is the value (in hundredths) with one decimal
IsVolumeContent(text, hundredths) ==
    /\ Len(text) > 10
    /\ SubSeq(text, 1, 8) = <<"v", "o", "l", "u", "m", "e", ":", " ">>
    /\ SubSeq(text, Len(text) - 1, Len(text)) = <<"\r", "\n">>
    /\ LET x == ReadOneDecimal(SubSeq(text, 9, Len(text) - 2))
       IN /\ x.ok
          /\ x.tenths * 10 - hundredths \in -5..5

\* what C20 says is stored for the argument v, and what it says is sent for it
ClaimedStored(v) == IF v < 1 THEN 0 ELSE IF v > 3000 THEN 3000 ELSE v
ClaimedSent(v) == IF ClaimedStored(v) < 1 THEN 0 - 14400 ELSE ClaimedStored(v) - 3000

\* the requests of a command that are not the repetition after a 401 response
FirstRequests(reqs) == LET First(r) == ~r.retry IN SelectSeq(reqs, First)

ONE_SECOND_IN_NANO_SECONDS == 1000000000
PLAYING_TIME_LAG_SECONDS == 2
PLAYING_TIME_LAG_NANO_SECONDS == 0
PLAYING_TIME_LAG == Timespec(PLAYING_TIME_LAG_SECONDS, PLAYING_TIME_LAG_NANO_SECONDS)

\* time += delta, with at most one carry of a second
timespecAdd(time, delta) ==
    LET sec == time.tv_sec + delta.tv_sec
        nsec == time.tv_nsec + delta.tv_nsec
    IN  IF nsec >= ONE_SECOND_IN_NANO_SECONDS
        THEN Timespec(sec + 1, nsec - ONE_SECOND_IN_NANO_SECONDS)
        ELSE Timespec(sec, nsec)

\* delta = time1 - time2, or 0 when time1 < time2
timespecSubtract(time1, time2) ==
    IF time1.tv_sec >= time2.tv_sec
    THEN IF time1.tv_nsec >= time2.tv_nsec
         THEN Timespec(time1.tv_sec - time2.tv_sec, time1.tv_nsec - time2.tv_nsec)
         ELSE IF time1.tv_sec > time2.tv_sec
              THEN Timespec(time1.tv_sec - time2.tv_sec - 1,
                            ONE_SECOND_IN_NANO_SECONDS + time1.tv_nsec - time2.tv_nsec)
              ELSE Timespec(0, 0)
    ELSE Timespec(0, 0)

MaxClockSeconds == 4
StartTimes == {Timespec(0, 0), Timespec(1, 500000000), Timespec(3, 999999999)}

\* raopClientInitialize and raopClientPlayM4AFile with a start time, at some clock value
ProgressInit ==
    /\ ProgramInit /\ NoFile /\ NoRequestBuilt /\ NoMain /\ NoReceive /\ NoDigest /\ NoBuffers
    /\ clock \in {Timespec(0, 1), Timespec(1, 999999999)}
    /\ startTimespec \in StartTimes
    /\ playingTimeOffset = Timespec(0, 0)
    /\ stored = {}
    /\ tpc = "start"
    /\ currentTime = NoTimespec /\ progress = NoTimespec
    /\ startInstant = NoTimespec /\ instantAtCall = NoTimespec
    /\ offsetAtCall = NoTimespec

\* time passes
clock_Advance ==
    /\ clock.tv_sec < MaxClockSeconds
    /\ \E step \in {Timespec(0, 500000000), Timespec(1, 0)} : clock' = timespecAdd(clock, step)
    /\ UNCHANGED <<startTimespec, playingTimeOffset, stored, tpc, currentTime, progress,
                   startInstant, instantAtCall, offsetAtCall>>
    /\ UNCHANGED <<programVars, fileVars, requestVars, lateVars>>

\* raopClientSendAudio: clock_gettime(CLOCK_MONOTONIC, &raopClient->playingTimeOffset);
\* the audio thread writes the two fields one after the other, in the order the C library
\* chooses, while the main thread may read them
raopClientSendAudio_KeepOffset(field) ==
    /\ tpc \in {"start", "storing"}
    /\ field \notin stored
    /\ LET instant == IF tpc = "start" THEN clock ELSE startInstant
       IN  /\ startInstant' = instant
           /\ playingTimeOffset' = [playingTimeOffset EXCEPT ![field] = instant[field]]
    /\ stored' = stored \cup {field}
    /\ tpc' = IF stored' = {"tv_sec", "tv_nsec"} THEN "lag" ELSE "storing"
    /\ UNCHANGED <<clock, startTimespec, currentTime, progress, instantAtCall, offsetAtCall>>
    /\ UNCHANGED <<programVars, fileVars, requestVars, lateVars>>

\* raopClientSendAudio: timespecAdd(&raopClient->playingTimeOffset, &PLAYING_TIME_LAG)
raopClientSendAudio_AddLag ==
    /\ tpc = "lag"
    /\ playingTimeOffset' = timespecAdd(playingTimeOffset, PLAYING_TIME_LAG)
    /\ tpc' = "sending"
    /\ UNCHANGED <<clock, startTimespec, stored, currentTime, progress, startInstant,
                   instantAtCall, offsetAtCall>>
    /\ UNCHANGED <<programVars, fileVars, requestVars, lateVars>>

\* raopClientGetProgress, called by the signal handler on the main thread at any moment or
\* by the audio thread after it has sent the samples
raopClientGetProgress(caller) ==
    /\ caller = "raopClientWaitForBufferedAudio" => tpc = "sending"
    /\ currentTime' = clock
    /\ progress' = timespecAdd(timespecSubtract(clock, playingTimeOffset), startTimespec)
    /\ instantAtCall' = startInstant
    /\ offsetAtCall' = playingTimeOffset
    /\ UNCHANGED <<clock, startTimespec, playingTimeOffset, stored, tpc, startInstant>>
    /\ UNCHANGED <<programVars, fileVars, requestVars, lateVars>>

ProgressNext ==
    \/ clock_Advance
    \/ \E field \in {"tv_sec", "tv_nsec"} : raopClientSendAudio_KeepOffset(field)
    \/ raopClientSendAudio_AddLag
    \/ \E caller \in {"signalHandler", "raopClientWaitForBufferedAudio"} :
          raopClientGetProgress(caller)

ProgressSpec == ProgressInit /\ [][ProgressNext]_vars

\* the arithmetic of the claim, on seconds and nanoseconds
IsNormalised(t) == t.tv_sec >= 0 /\ t.tv_nsec >= 0 /\ t.tv_nsec < ONE_SECOND_IN_NANO_SECONDS
Earlier(a, b) == a.tv_sec < b.tv_sec \/ (a.tv_sec = b.tv_sec /\ a.tv_nsec < b.tv_nsec)
SaturatingDifference(a, b) ==
    IF Earlier(a, b) THEN Timespec(0, 0)
    ELSE IF a.tv_nsec < b.tv_nsec
         THEN Timespec(a.tv_sec - b.tv_sec - 1,
                       a.tv_nsec + (ONE_SECOND_IN_NANO_SECONDS - b.tv_nsec))
         ELSE Timespec(a.tv_sec - b.tv_sec, a.tv_nsec - b.tv_nsec)
Sum(a, b) ==
    Timespec(a.tv_sec + b.tv_sec + ((a.tv_nsec + b.tv_nsec) \div ONE_SECOND_IN_NANO_SECONDS),
             (a.tv_nsec + b.tv_nsec) % ONE_SECOND_IN_NANO_SECONDS)
ProgressReturned == progress # NoTimespec

\* what holds of every progress returned: it is max(0, now - playingTimeOffset) + startTime
\* for the offset as it was read, it is normalised, and it is not before the start time
ProgressIsSaturatingSum ==
    ProgressReturned =>
        /\ progress = Sum(SaturatingDifference(currentTime, offsetAtCall), startTimespec)
        /\ IsNormalised(progress)
        /\ ~Earlier(progress, startTimespec)

\* C21: every progress that raopClientGetProgress returns once the audio thread has read the
\* clock at its start is max(0, now - (that start instant + 2 s)) + the start time, is
\* normalised and is not before the start time
C21_ProgressCountsFromStartInstantPlusLag ==
    (ProgressReturned /\ instantAtCall # NoTimespec) =>
        /\ progress = Sum(SaturatingDifference(currentTime, Sum(instantAtCall, PLAYING_TIME_LAG)),
                          startTimespec)
        /\ IsNormalised(progress)
        /\ ~Earlier(progress, startTimespec)

\* ---------------------------------------------------------------------------------------
\* The M4A file: m4afile.c
\* ---------------------------------------------------------------------------------------
\* A uint32_t is held as the integer between -2^31 and 2^31 - 1 that has the same 32 bits
\* (0xffffffff is -1): sums and differences of such integers are the sums and differences
\* modulo 2^32, and the unsigned order is Less32.
Less32(a, b) == IF (a >= 0) = (b >= 0) THEN a < b ELSE a >= 0

\* the sum modulo 2^32
Plus32(a, b) ==
    IF a >= 0 /\ b >= 0 /\ a > 2147483647 - b
    THEN (a - 2147483647 - 1) + (b - 2147483647 - 1)
    ELSE IF a < 0 /\ b < 0 /\ a < (0 - 2147483647 - 1) - b
    THEN (a + 2147483647 + 1) + (b + 2147483647 + 1)
    ELSE a + b

\* the four bytes of a uint32_t, most significant first
Bytes32(n) ==
    LET m == IF n >= 0 THEN n ELSE 0 - n - 1
        b == <<m \div 16777216, (m \div 65536) % 256, (m \div 256) % 256, m % 256>>
    IN  IF n >= 0 THEN b ELSE [i \in 1..4 |-> 255 - b[i]]

\* read4ByteUnsignedInt32 of four bytes that are there
ToUnsignedInt32(b) ==
    (IF b[1] >= 128 THEN b[1] - 256 ELSE b[1]) * 16777216 + b[2] * 65536 + b[3] * 256 + b[4]

\* the product modulo 2^32: by a number up to 256, and by the bytes of any uint32_t
TimesByte(a, k) ==
    LET low == (a % 65536) * k
        high == (((a \div 65536) % 65536) * k + (low \div 65536)) % 65536
    IN  (IF high >= 32768 THEN high - 65536 ELSE high) * 65536 + (low % 65536)
Times32(a, b) ==
    LET by == Bytes32(b)
        upTo1 == TimesByte(a, by[1])
        upTo2 == Plus32(TimesByte(upTo1, 256), TimesByte(a, by[2]))
        upTo3 == Plus32(TimesByte(upTo2, 256), TimesByte(a, by[3]))
    IN  Plus32(TimesByte(upTo3, 256), TimesByte(a, by[4]))

\* a position in a stream, high * 2^32 + the uint32_t low; its conversion to uint32_t by
\* the assignment of ftell's result is low
Position(high, low) == [high |-> high, low |-> low]
NoPosition == [high |-> 0 - 1, low |-> 0]

\* fseek(stream, offset, SEEK_CUR) and fseek(stream, offset, SEEK_SET) with a uint32_t
\* offset: the offset is converted to long, which keeps its value where long has 64 bits
\* and makes 2^31 and more negative where long has 32 bits; fseek refuses a negative
\* position (NoPosition) and accepts a position beyond the end of the file
fseek(from, offset, width) ==
    IF width = 4
    THEN Position(from.high + (IF offset # 0 /\ ~Less32(from.low, from.low + offset)
                               THEN 1 ELSE 0),
                  from.low + offset)
    ELSE IF from.low + offset < 0 THEN NoPosition ELSE Position(0, from.low + offset)

\* fgetc four times at a position of a stream over the bytes: the value, whether the end
\* of the file was met, and the position afterwards
read4ByteUnsignedInt32(bytes, at) ==
    LET inside == at.high = 0 /\ at.low >= 0 /\ at.low < Len(bytes)
    IN  IF inside /\ at.low + 4 <= Len(bytes)
        THEN [value |-> ToUnsignedInt32(SubSeq(bytes, at.low + 1, at.low + 4)),
              feof |-> FALSE, at |-> Position(0, at.low + 4)]
        ELSE [value |-> 0 - 1, feof |-> TRUE,
              at |-> IF inside THEN Position(0, Len(bytes)) ELSE at]

\* ASCII_TO_INT32 of the four characters of a box type or of a brand, by their codes
ASCII_TO_INT32(char1, char2, char3, char4) == ToUnsignedInt32(<<char1, char2, char3, char4>>)
APPLE_FILE_TYPE == ASCII_TO_INT32(77, 52, 65, 32)
ALAC_ENCODING_TYPE == ASCII_TO_INT32(97, 108, 97, 99)
AAC_ENCODING_TYPE == ASCII_TO_INT32(109, 112, 52, 97)
UNUSED_OFFSET == 0 - 1

\* mp4BoxParserTable, for the box types of the files below: the parser of a box type,
\* "none" for a type that is not in the table (wide is not)
BoxType ==
    [ftyp |-> ASCII_TO_INT32(102, 116, 121, 112), moov |-> ASCII_TO_INT32(109, 111, 111, 118),
     mdhd |-> ASCII_TO_INT32(109, 100, 104, 100), stts |-> ASCII_TO_INT32(115, 116, 116, 115),
     stsz |-> ASCII_TO_INT32(115, 116, 115, 122), free |-> ASCII_TO_INT32(102, 114, 101, 101),
     mdat |-> ASCII_TO_INT32(109, 100, 97, 116), alac |-> ALAC_ENCODING_TYPE,
     mp4a |-> AAC_ENCODING_TYPE, wide |-> ASCII_TO_INT32(119, 105, 100, 101)]
mp4BoxParserTable(boxType) ==
    CASE boxType = BoxType.ftyp -> "mp4BoxParseFileType"
      [] boxType = BoxType.moov -> "mp4BoxParseContainer"
      [] boxType = BoxType.mdhd -> "mp4BoxParseMediaHeader"
      [] boxType \in {BoxType.alac, BoxType.mp4a} -> "mp4BoxParseSampleDescription"
      [] boxType = BoxType.stts -> "mp4BoxParseSampleTimes"
      [] boxType = BoxType.stsz -> "mp4BoxParseSampleSizes"
      [] boxType = BoxType.free -> "mp4BoxSkip"
      [] boxType = BoxType.mdat -> "mp4BoxParseMediaData"
      [] OTHER -> "none"

\* a warning is logged and the status becomes M4AFILE_PARSED_WITH_WARNINGS; warned
\* remembers that it happened
Warning(m) == [m EXCEPT !.status = "M4AFILE_PARSED_WITH_WARNINGS", !.warned = TRUE]
Failure(m) == [m EXCEPT !.status = "M4AFILE_ERROR"]

\* what a function of the parser gives back: a value, whether it succeeded, the file
Gives(value, ok, m) == [value |-> value, ok |-> ok, m |-> m]

\* m4aFileReadUnsignedLong, given at first what read4ByteUnsignedInt32 gives for the
\* data stream
m4aFileReadUnsignedLong_Value(m, r) ==
    IF r.feof THEN Gives(0, FALSE, Failure([m EXCEPT !.dataStream = r.at]))
    ELSE Gives(r.value, TRUE, [m EXCEPT !.dataStream = r.at])
m4aFileReadUnsignedLong(m) ==
    m4aFileReadUnsignedLong_Value(m, read4ByteUnsignedInt32(m.file, m.dataStream))

m4aFileSkipBytes(m, byteCount) ==
    LET to == fseek(m.dataStream, byteCount, m.longWidth)
    IN  IF to = NoPosition THEN Gives(0, FALSE, Failure(m))
        ELSE Gives(0, TRUE, [m EXCEPT !.dataStream = to])

\* m4aFileCheckVersionAndFlags with expected version 0 and all flag bits expected off, as
\* the parsers of mdhd, stts and stsz call it; the value is the version
m4aFileCheckVersionAndFlags_Value(r, b) ==
    LET m1 == IF b[1] # 0 THEN Warning(r.m) ELSE r.m
        m2 == IF b[2] # 0 \/ b[3] # 0 \/ b[4] # 0 THEN Warning(m1) ELSE m1
    IN  IF ~r.ok THEN r ELSE Gives(b[1], TRUE, m2)
m4aFileCheckVersionAndFlags_Read(r) == m4aFileCheckVersionAndFlags_Value(r, Bytes32(r.value))
m4aFileCheckVersionAndFlags(m) == m4aFileCheckVersionAndFlags_Read(m4aFileReadUnsignedLong(m))

\* m4aFileSetTimescale and m4aFileSetDuration (timeField is "timescale" or "duration")
m4aFileSetTimeValue(m, timeValue, timeField) ==
    IF timeValue # 0 /\ timeValue # 0 - 1 /\ m[timeField] # timeValue
    THEN IF m[timeField] = 0 THEN [m EXCEPT ![timeField] = timeValue] ELSE Warning(m)
    ELSE m

\* m4aFileReadDuration, given at first what its read of the upper 32 bits gives (for a
\* box of version 1)
m4aFileReadDuration_Upper(boxVersion, upper) ==
    LET hasUnknownDuration == boxVersion = 1 /\ upper.value = 0 - 1
        lower == m4aFileReadUnsignedLong(upper.m)
    IN  IF ~upper.ok THEN upper
        ELSE IF boxVersion = 1 /\ upper.value # 0 - 1 /\ upper.value # 0
        THEN Gives(0, FALSE, upper.m)
        ELSE IF ~lower.ok THEN lower
        ELSE IF lower.value # 0 - 1 /\ hasUnknownDuration THEN Gives(0, FALSE, lower.m)
        ELSE Gives(lower.value, TRUE, m4aFileSetTimeValue(lower.m, lower.value, "duration"))
m4aFileReadDuration(m, boxVersion) ==
    m4aFileReadDuration_Upper(
        boxVersion, IF boxVersion = 1 THEN m4aFileReadUnsignedLong(m) ELSE Gives(0, TRUE, m))

\* m4aFileReadDuration without its check of the upper 32 bits
m4aFileReadDurationUnchecked(m, boxVersion) ==
    LET upper == IF boxVersion = 1 THEN m4aFileReadUnsignedLong(m) ELSE Gives(0, TRUE, m)
        lower == m4aFileReadUnsignedLong(upper.m)
    IN  IF ~upper.ok THEN upper
        ELSE IF ~lower.ok THEN lower
        ELSE Gives(lower.value, TRUE, m4aFileSetTimeValue(lower.m, lower.value, "duration"))

setTotalSampleSize(m, totalSampleSize) ==
    IF m.totalSampleSize = 0 THEN [m EXCEPT !.totalSampleSize = totalSampleSize]
    ELSE IF m.totalSampleSize # totalSampleSize /\ Less32(totalSampleSize, m.totalSampleSize)
    THEN [m EXCEPT !.totalSampleSize = totalSampleSize]
    ELSE m

\* the box parsers: the value is the number of bytes the parser says it has read
mp4BoxSkip(m, boxBytesLeft) ==
    LET s == m4aFileSkipBytes(m, boxBytesLeft)
    IN  IF s.ok THEN Gives(boxBytesLeft, TRUE, s.m) ELSE s

mp4BoxParseFileType(m, boxBytesLeft) ==
    LET mainType == m4aFileReadUnsignedLong(m)
        mainVersion == m4aFileReadUnsignedLong(mainType.m)
        checked == IF mainType.value # APPLE_FILE_TYPE \/ mainVersion.value # 0
                   THEN Warning(mainVersion.m) ELSE mainVersion.m
        s == m4aFileSkipBytes(checked, boxBytesLeft - 8)
    IN  IF ~mainType.ok THEN mainType
        ELSE IF ~mainVersion.ok THEN mainVersion
        ELSE IF ~s.ok THEN s
        ELSE Gives(boxBytesLeft, TRUE, s.m)

\* mp4BoxParseMediaHeader: given at first what m4aFileCheckVersionAndFlags gives, then
\* what the read of the timescale gives, then what m4aFileReadDuration gives
mp4BoxParseMediaHeader_Duration(boxBytesLeft, expected, duration) ==
    LET rest == m4aFileSkipBytes(duration.m, boxBytesLeft - expected)
    IN  IF ~duration.ok THEN Gives(0, FALSE, duration.m)
        ELSE IF ~rest.ok THEN rest
        ELSE Gives(boxBytesLeft, TRUE, rest.m)
mp4BoxParseMediaHeader_Timescale(boxBytesLeft, expected, boxVersion, timescale) ==
    IF ~timescale.ok THEN Gives(0, FALSE, timescale.m)
    ELSE mp4BoxParseMediaHeader_Duration(
             boxBytesLeft, expected,
             m4aFileReadDuration(
                 m4aFileSetTimeValue(timescale.m, timescale.value, "timescale"), boxVersion))
mp4BoxParseMediaHeader_Version(boxBytesLeft, c) ==
    LET expected == IF c.value = 0 THEN 20 ELSE 32
        times == m4aFileSkipBytes(c.m, IF c.value = 0 THEN 8 ELSE 16)
    IN  IF ~c.ok THEN Gives(0, FALSE, c.m)
        ELSE IF Less32(boxBytesLeft, expected) THEN Gives(0, FALSE, Failure(c.m))
        ELSE IF ~times.ok THEN times
        ELSE mp4BoxParseMediaHeader_Timescale(
                 boxBytesLeft, expected, c.value, m4aFileReadUnsignedLong(times.m))
mp4BoxParseMediaHeader(m, boxBytesLeft) ==
    mp4BoxParseMediaHeader_Version(boxBytesLeft, m4aFileCheckVersionAndFlags(m))

mp4BoxParseSampleDescription(m, boxType, boxBytesLeft) ==
    LET encoding == IF boxType = ALAC_ENCODING_TYPE THEN "ENCODING_ALAC" ELSE "ENCODING_AAC"
        set == IF m.encoding \notin {"ENCODING_UNKNOWN", encoding} THEN Warning(m)
               ELSE IF encoding = "ENCODING_AAC" THEN Warning([m EXCEPT !.encoding = encoding])
               ELSE [m EXCEPT !.encoding = encoding]
    IN  mp4BoxSkip(set, boxBytesLeft)

\* the loops of mp4BoxParseSampleTimes and mp4BoxParseSampleSizes: count times a
\* uint32_t is read; the value is the sequence of the values read
RECURSIVE ReadUnsignedLongs(_, _, _)
ReadUnsignedLongs(m, count, values) ==
    IF count = 0 THEN Gives(values, TRUE, m)
    ELSE LET r == m4aFileReadUnsignedLong(m)
         IN  IF ~r.ok THEN Gives(values, FALSE, r.m)
             ELSE ReadUnsignedLongs(r.m, count - 1, Append(values, r.value))

RECURSIVE Total(_)
Total(values) == IF values = <<>> THEN 0 ELSE Plus32(values[1], Total(Tail(values)))
RECURSIVE TotalDuration(_)
TotalDuration(values) ==
    IF Len(values) < 2 THEN 0
    ELSE Plus32(Times32(values[1], values[2]), TotalDuration(Tail(Tail(values))))
RECURSIVE Largest(_)
Largest(values) ==
    IF values = <<>> THEN 0
    ELSE LET rest == Largest(Tail(values))
         IN  IF Less32(rest, values[1]) THEN values[1] ELSE rest

\* mp4BoxParseSampleTimes: given at first what m4aFileCheckVersionAndFlags gives, then
\* what the read of the number of timings gives, then what the loop gives
mp4BoxParseSampleTimes_Timings(numberOfTimings, timings) ==
    IF ~timings.ok THEN Gives(0, FALSE, timings.m)
    ELSE Gives(Plus32(8, Times32(numberOfTimings.value, 8)), TRUE,
               m4aFileSetTimeValue(timings.m, TotalDuration(timings.value), "duration"))
mp4BoxParseSampleTimes_Count(numberOfTimings) ==
    IF ~numberOfTimings.ok THEN numberOfTimings
    ELSE mp4BoxParseSampleTimes_Timings(
             numberOfTimings,
             ReadUnsignedLongs(numberOfTimings.m, 2 * numberOfTimings.value, <<>>))
mp4BoxParseSampleTimes_Version(c) ==
    IF ~c.ok THEN Gives(0, FALSE, c.m)
    ELSE mp4BoxParseSampleTimes_Count(m4aFileReadUnsignedLong(c.m))
mp4BoxParseSampleTimes(m, boxBytesLeft) ==
    mp4BoxParseSampleTimes_Version(m4aFileCheckVersionAndFlags(m))

\* mp4BoxParseSampleSizes: given at first what m4aFileCheckVersionAndFlags gives, then
\* what the read of the size for all samples gives, then what the read of the number of
\* samples gives, then what the loop gives
mp4BoxParseSampleSizes_Sizes(samplesCount, sizes) ==
    IF ~sizes.ok THEN Gives(0, FALSE, sizes.m)
    ELSE Gives(Plus32(12, Times32(samplesCount.value, 4)), TRUE,
               [setTotalSampleSize(sizes.m, Total(sizes.value))
                    EXCEPT !.largestSampleSize = Largest(sizes.value)])
mp4BoxParseSampleSizes_Count(samplesCount) ==
    IF ~samplesCount.ok THEN samplesCount
    ELSE mp4BoxParseSampleSizes_Sizes(
             samplesCount,
             ReadUnsignedLongs([samplesCount.m
                                   EXCEPT !.samplesCount = samplesCount.value,
                                          !.sizeOffset = samplesCount.m.dataStream.low],
                               samplesCount.value, <<>>))
mp4BoxParseSampleSizes_SizeForAll(sampleSizeForAll) ==
    IF ~sampleSizeForAll.ok THEN sampleSizeForAll
    ELSE mp4BoxParseSampleSizes_Count(
             m4aFileReadUnsignedLong(
                 IF sampleSizeForAll.value # 0 THEN Warning(sampleSizeForAll.m)
                 ELSE sampleSizeForAll.m))
mp4BoxParseSampleSizes_Version(c) ==
    IF ~c.ok THEN Gives(0, FALSE, c.m)
    ELSE mp4BoxParseSampleSizes_SizeForAll(m4aFileReadUnsignedLong(c.m))
mp4BoxParseSampleSizes(m, boxBytesLeft) ==
    mp4BoxParseSampleSizes_Version(m4aFileCheckVersionAndFlags(m))

mp4BoxParseMediaData(m, boxBytesLeft) ==
    mp4BoxSkip(setTotalSampleSize([m EXCEPT !.dataOffset = m.dataStream.low], boxBytesLeft),
               boxBytesLeft)

\* the call of the parser that mp4BoxParserTable has given for the box type
BoxParser(parser, m, boxType, boxBytesLeft) ==
    CASE parser = "mp4BoxParseFileType" -> mp4BoxParseFileType(m, boxBytesLeft)
      [] parser = "mp4BoxParseMediaHeader" -> mp4BoxParseMediaHeader(m, boxBytesLeft)
      [] parser = "mp4BoxParseSampleDescription" ->
            mp4BoxParseSampleDescription(m, boxType, boxBytesLeft)
      [] parser = "mp4BoxParseSampleTimes" -> mp4BoxParseSampleTimes(m, boxBytesLeft)
      [] parser = "mp4BoxParseSampleSizes" -> mp4BoxParseSampleSizes(m, boxBytesLeft)
      [] parser = "mp4BoxParseMediaData" -> mp4BoxParseMediaData(m, boxBytesLeft)
      [] parser = "mp4BoxSkip" -> mp4BoxSkip(m, boxBytesLeft)
      [] OTHER -> Gives(0, TRUE, m)

\* mp4BoxParse after the box parser has returned: the rest of a box that was not read
\* completely is skipped, with a warning, and so is a box that was read beyond its size
mp4BoxParse_Trailer(m, boxSize, boxBytesRead) ==
    IF Less32(boxBytesRead, boxSize)
    THEN LET s == m4aFileSkipBytes(Warning(m), boxSize - boxBytesRead)
         IN  IF s.ok THEN Gives(boxSize, TRUE, s.m) ELSE s
    ELSE IF Less32(boxSize, boxBytesRead) THEN Gives(boxBytesRead, TRUE, Warning(m))
    ELSE Gives(boxBytesRead, TRUE, m)

\* mp4BoxParse without the skip of the rest of the box
mp4BoxParse_NoTrailer(m, boxSize, boxBytesRead) == Gives(boxBytesRead, TRUE, m)

NoBox == [start |-> NoPosition, boxSize |-> 0, after |-> NoPosition, status |-> "", boxType |-> 0]
MaxIdleCalls == 2

\* mp4BoxParse returns a value for a box that started at a position (for no box when the
\* size or the type could not be read): to m4aFileParse, whose loop ends with 0, or to
\* mp4BoxParseContainerInternal, which adds it up; s is the state of the parser before
Return(s, r, start, boxType, boxSize, callers) ==
    [m4aFile |-> r.m,
     lastBox |-> IF boxType = NoBox.boxType THEN s.lastBox
                 ELSE [start |-> start, boxSize |-> boxSize, after |-> r.m.dataStream,
                       status |-> r.m.status, boxType |-> boxType],
     idleCalls |-> IF r.m.dataStream # start THEN 0
                   ELSE IF s.idleCalls < MaxIdleCalls THEN s.idleCalls + 1 ELSE s.idleCalls,
     containers |-> IF callers = <<>> THEN <<>>
                    ELSE [callers EXCEPT ![Len(callers)].containerSize = @ + r.value],
     ppc |-> IF callers = <<>> /\ r.value = 0 THEN "finish" ELSE "parse"]

\* the loops of m4aFileParse and of mp4BoxParseContainerInternal go on
Continues(s) ==
    /\ s.ppc = "parse"
    /\ s.m4aFile.status # "M4AFILE_ERROR"
    /\ s.containers # <<>> =>
          Less32(s.containers[Len(s.containers)].containerSize,
                 s.containers[Len(s.containers)].boxBytesLeft)

\* mp4BoxParse, called by m4aFileParse or by mp4BoxParseContainerInternal: the size and
\* the type are read, then the parser of the box type runs; for a container this is the
\* start of mp4BoxParseContainerInternal
\* (given at first what the read of the size gives, then what the read of the type
\* gives, then what the parser of the box type gives)
mp4BoxParse_Parsed(s, start, boxSize, boxType, parsed) ==
    Return(s, mp4BoxParse_Trailer(parsed.m, boxSize, 8 + parsed.value),
           start, boxType, boxSize, s.containers)
mp4BoxParse_Type(s, start, boxSize, boxType, parser) ==
    IF parser = "mp4BoxParseContainer"
    THEN [s EXCEPT !.m4aFile = boxType.m,
                   !.containers = Append(@,
                        [start |-> start, boxType |-> boxType.value,
                         boxSize |-> boxSize.value,
                         boxBytesLeft |-> boxSize.value - 8, containerSize |-> 0])]
    ELSE mp4BoxParse_Parsed(
             s, start, boxSize.value, boxType.value,
             BoxParser(parser, boxType.m, boxType.value, boxSize.value - 8))
mp4BoxParse_Size(s, start, boxSize, boxType) ==
    IF ~boxSize.ok
    THEN Return(s, Gives(0, FALSE, [boxSize.m EXCEPT !.status = "M4AFILE_OK"]),
                start, 0, 0, s.containers)
    ELSE IF ~boxType.ok
    THEN Return(s, Gives(0, FALSE, boxType.m), start, 0, 0, s.containers)
    ELSE mp4BoxParse_Type(s, start, boxSize, boxType, mp4BoxParserTable(boxType.value))
mp4BoxParse_Call(s) ==
    LET boxSize == m4aFileReadUnsignedLong(s.m4aFile)
    IN  mp4BoxParse_Size(s, s.m4aFile.dataStream, boxSize, m4aFileReadUnsignedLong(boxSize.m))

\* mp4BoxParseContainerInternal after its loop, and the rest of the mp4BoxParse that
\* called it
mp4BoxParseContainerInternal_Return(s) ==
    LET box == s.containers[Len(s.containers)]
        m == IF s.m4aFile.status # "M4AFILE_ERROR"
                /\ Less32(box.boxBytesLeft, box.containerSize)
             THEN Warning(s.m4aFile) ELSE s.m4aFile
    IN  Return(s, mp4BoxParse_Trailer(m, box.boxSize, 8 + box.containerSize),
               box.start, box.boxType, box.boxSize,
               SubSeq(s.containers, 1, Len(s.containers) - 1))

\* fseek(stream, offset, SEEK_SET); a failure is logged and the stream stays where it is
Rewind(m, stream, offset) ==
    IF fseek(Position(0, 0), offset, m.longWidth) = NoPosition THEN stream
    ELSE fseek(Position(0, 0), offset, m.longWidth)

\* m4aFileParse after its loop
m4aFileParse_End(s) ==
    IF s.m4aFile.status # "M4AFILE_ERROR"
    THEN [s EXCEPT !.m4aFile.dataStream = Rewind(s.m4aFile, @, s.m4aFile.dataOffset),
                   !.m4aFile.sizeStream = Rewind(s.m4aFile, @, s.m4aFile.sizeOffset),
                   !.ppc = "parsed"]
    ELSE [s EXCEPT !.ppc = "failed"]

\* the bytes of uint32_t values one after the other, and of a box with a size field
RECURSIVE Longs(_)
Longs(values) == IF values = <<>> THEN <<>> ELSE Bytes32(values[1]) \o Longs(Tail(values))
Box(boxSize, boxType, body) == Bytes32(boxSize) \o Bytes32(boxType) \o body
WholeBox(boxType, body) == Box(8 + Len(body), boxType, body)

\* the files that are parsed: a well-formed file of three samples (plain), the same with
\* mdat first, and files with one deviation each (otherTimes: a second media header
\* and a sample time table that give another timescale and other durations)
Files ==
    LET ftyp == WholeBox(BoxType.ftyp, Longs(<<APPLE_FILE_TYPE, 0>>))
        mdhd == WholeBox(BoxType.mdhd, Longs(<<0, 0, 0, 4096, 8192>>))
        mdhd1(upper, lower) ==
            WholeBox(BoxType.mdhd, Longs(<<16777216, 0, 0, 0, 0, 4096, upper, lower>>))
        stts == WholeBox(BoxType.stts, Longs(<<0, 1, 2, 4096>>))
        mdhdOther == WholeBox(BoxType.mdhd, Longs(<<0, 0, 0, 8000, 16000>>))
        sttsOther == WholeBox(BoxType.stts, Longs(<<0, 1, 3, 4000>>))
        alac == WholeBox(BoxType.alac, <<>>)
        stsz == WholeBox(BoxType.stsz, Longs(<<0, 0, 3, 2, 1, 3>>))
        free == WholeBox(BoxType.free, <<>>)
        mdat(length) == WholeBox(BoxType.mdat, [i \in 1..length |-> i])
        moov(body) == WholeBox(BoxType.moov, body)
    IN  [plain |-> ftyp \o moov(mdhd \o stts \o alac \o stsz) \o mdat(6),
         mdatFirst |-> mdat(6) \o moov(stsz),
         unknownBox |-> WholeBox(BoxType.wide, Longs(<<0>>)) \o free,
         otherBrand |-> WholeBox(BoxType.ftyp, Longs(<<BoxType.wide, 0>>)),
         aac |-> WholeBox(BoxType.mp4a, <<>>),
         flags |-> WholeBox(BoxType.stts, Longs(<<1, 0>>)),
         shortHandler |-> WholeBox(BoxType.stsz, Longs(<<0, 0, 1, 5, 0>>)) \o mdat(5),
         longHandler |-> Box(16, BoxType.stts, Longs(<<0, 1>>)) \o free \o free,
         version1 |-> moov(mdhd1(0, 8192)),
         unknownDuration |-> mdhd1(0 - 1, 0 - 1),
         longDuration |-> mdhd1(1, 0) \o free,
         mixedDuration |-> moov(mdhd1(0 - 1, 7)),
         truncated |-> Box(24, BoxType.moov, free),
         trailing |-> free \o <<0>>,
         noType |-> Longs(<<16>>),
         shortSize |-> Box(4, BoxType.free, <<>>) \o free,
         shortUnknown |-> moov(Box(4, BoxType.wide, <<>>)) \o free,
         zeroSize |-> moov(Box(0, BoxType.free, <<>>) \o free),
         shortData |-> moov(stsz) \o mdat(4),
         emptyTable |-> WholeBox(BoxType.stsz, Longs(<<0, 0, 0>>)) \o mdat(4),
         otherTimes |-> moov(mdhd \o mdhdOther \o sttsOther)]

\* the values malloc's memory may hold in the fields m4aFileInitialize does not set
Uninitialised == {0, 5}

\* m4aFileOpen: m4aFileInitialize and the two streams at the start of the file;
\* samplesCount and totalSampleSize are not initialised
m4aFileOpen ==
    {[m4aFile |-> [file |-> Files[name], longWidth |-> long,
                   dataStream |-> Position(0, 0), sizeStream |-> Position(0, 0),
                   dataOffset |-> UNUSED_OFFSET, sizeOffset |-> UNUSED_OFFSET,
                   samplesCount |-> count, totalSampleSize |-> total,
                   largestSampleSize |-> 0, timescale |-> 0, duration |-> 0,
                   encoding |-> "ENCODING_UNKNOWN", status |-> "M4AFILE_OK",
                   warned |-> FALSE],
      containers |-> <<>>, ppc |-> "parse", lastBox |-> NoBox, idleCalls |-> 0] :
        name \in DOMAIN Files, long \in LongLimbs,
        count \in Uninitialised, total \in Uninitialised}

\* the step m4aFileParse takes in a state of the parser
m4aFileParse(s) ==
    IF Continues(s) THEN mp4BoxParse_Call(s)
    ELSE IF s.ppc = "parse" /\ s.containers # <<>> THEN mp4BoxParseContainerInternal_Return(s)
    ELSE IF s.ppc \in {"parse", "finish"} THEN m4aFileParse_End(s)
    ELSE s

\* the states m4aFileParse goes through after m4aFileOpen, and its step in each of them,
\* worked out once
RECURSIVE ParserStepsFrom(_, _)
ParserStepsWith(steps, added) ==
    ParserStepsFrom(added @@ steps,
                    {added[s] : s \in DOMAIN added} \ (DOMAIN added \cup DOMAIN steps))
ParserStepsFrom(steps, new) ==
    IF new = {} THEN steps ELSE ParserStepsWith(steps, [s \in new |-> m4aFileParse(s)])
ParserSteps == ParserStepsFrom([s \in {} |-> s], m4aFileOpen)
ParserStates == DOMAIN ParserSteps

ParserState ==
    [m4aFile |-> m4aFile, containers |-> containers, ppc |-> ppc, lastBox |-> lastBox,
     idleCalls |-> idleCalls]
ParserStateBecomes(s) ==
    /\ m4aFile' = s.m4aFile
    /\ containers' = s.containers
    /\ ppc' = s.ppc
    /\ lastBox' = s.lastBox
    /\ idleCalls' = s.idleCalls
    /\ UNCHANGED <<reader, programVars, timeVars, requestVars, lateVars>>

file == m4aFile.file
longWidth == m4aFile.longWidth

\* no call of the reading functions yet: what was asked last, what it returned, the
\* streams before it, whether every call so far has returned true, the sample offset of
\* the last m4aFileSetSampleOffset that returned true and the number of calls of
\* m4aFileGetNextSample that have returned true since
NoCalls ==
    [last |-> "none", seconds |-> 0, returned |-> TRUE, dataStream |-> NoPosition,
     sizeStream |-> NoPosition, index |-> 0, ok |-> TRUE, sampleOffset |-> 0, samples |-> 0]

FileInit ==
    /\ ProgramInit /\ TimeInit /\ NoRequestBuilt /\ NoMain /\ NoReceive /\ NoDigest /\ NoBuffers
    /\ \E s \in m4aFileOpen :
        /\ m4aFile = s.m4aFile
        /\ containers = s.containers
        /\ ppc = s.ppc
        /\ lastBox = s.lastBox
        /\ idleCalls = s.idleCalls
        /\ reader = NoCalls

mp4BoxParse ==
    /\ Continues(ParserState)
    /\ ParserStateBecomes(ParserSteps[ParserState])

mp4BoxParseContainerInternal ==
    /\ ppc = "parse" /\ containers # <<>> /\ ~Continues(ParserState)
    /\ ParserStateBecomes(ParserSteps[ParserState])

m4aFileParse_Return ==
    /\ ppc = "finish" \/ (ppc = "parse" /\ containers = <<>> /\ ~Continues(ParserState))
    /\ ParserStateBecomes(ParserSteps[ParserState])

ParseNext ==
    \/ mp4BoxParse
    \/ mp4BoxParseContainerInternal
    \/ m4aFileParse_Return

\* a uint32_t as limbs, and the uint32_t of two limbs
ToLimbs(n) == <<n % LimbBase, (n \div LimbBase) % LimbBase, 0, 0>>
FromLimbs(x) == (IF x[2] >= LimbBase \div 2 THEN x[2] - LimbBase ELSE x[2]) * LimbBase + x[1]

\* sampleOffset = m4aFile->timescale * timeOffset->tv_sec / DEFAULT_FRAMES_PER_PACKET: the
\* product in the width of long, the quotient stored in a uint32_t
SampleOffsetAt(timescale, seconds, long) ==
    FromLimbs(ToUint32(DivFramesPerPacket(Truncate(MulLimbs(ToLimbs(timescale), seconds),
                                                   long))))

\* the loop with the data stream left where it is
RECURSIVE SkipSizes(_, _)
SkipSizes(m, sampleOffset) ==
    IF sampleOffset = 0 THEN Gives(0, TRUE, m)
    ELSE LET sampleSize == read4ByteUnsignedInt32(m.file, m.sizeStream)
         IN  IF sampleSize.feof THEN Gives(0, FALSE, [m EXCEPT !.sizeStream = sampleSize.at])
             ELSE SkipSizes([m EXCEPT !.sizeStream = sampleSize.at], sampleOffset - 1)

\* the position of the size stream taken for the index, without the start of the table
SizeStreamPosition(m) == m.sizeStream.low \div 4

\* the loop of m4aFileSetSampleOffset: a size is read from the size stream and the data
\* stream skips as many bytes, sampleOffset times
RECURSIVE SkipSamples(_, _)
SkipSamples(m, sampleOffset) ==
    IF sampleOffset = 0 THEN Gives(0, TRUE, m)
    ELSE LET sampleSize == read4ByteUnsignedInt32(m.file, m.sizeStream)
             to == fseek(m.dataStream, sampleSize.value, m.longWidth)
         IN  IF sampleSize.feof THEN Gives(0, FALSE, [m EXCEPT !.sizeStream = sampleSize.at])
             ELSE IF to = NoPosition
             THEN Gives(0, FALSE, [m EXCEPT !.sizeStream = sampleSize.at])
             ELSE SkipSamples([m EXCEPT !.sizeStream = sampleSize.at, !.dataStream = to],
                              sampleOffset - 1)

\* fseek(stream, offset, SEEK_SET) of m4aFileSetSampleOffset, which returns false when it
\* fails
SeekSet(m, offset) == fseek(Position(0, 0), offset, m.longWidth)

\* (offset - m4aFile->sizeOffset) / 4 with offset = ftell(m4aFile->sizeStream), in uint32_t
m4aFileGetCurrentSampleIndex(m) ==
    LET bytes == Plus32(m.sizeStream.low, 0 - m.sizeOffset)
    IN  IF bytes >= 0 THEN bytes \div 4 ELSE 1073741824 + (bytes \div 4)

\* times (seconds) m4aFileSetSampleOffset is called with: the start, the second sample of
\* a file with 4096 samples a second, beyond the end of a file of three samples, and
\* 2^20 + 1, where the product with 4096 is 2^32 + 4096
ReaderSeconds == {0, 1, 3, 1048577}

Called(function, seconds, r) ==
    /\ m4aFile' = r.m
    /\ reader' = [last |-> function, seconds |-> seconds, returned |-> r.ok,
                  dataStream |-> m4aFile.dataStream, sizeStream |-> m4aFile.sizeStream,
                  index |-> m4aFileGetCurrentSampleIndex(m4aFile),
                  ok |-> reader.ok /\ r.ok,
                  sampleOffset |-> IF function = "m4aFileSetSampleOffset" /\ r.ok
                                   THEN r.value ELSE reader.sampleOffset,
                  samples |-> IF function = "m4aFileSetSampleOffset"
                              THEN (IF r.ok THEN 0 ELSE reader.samples)
                              ELSE (IF r.ok THEN reader.samples + 1 ELSE reader.samples)]
    /\ UNCHANGED <<containers, ppc, lastBox, idleCalls>>
    /\ UNCHANGED <<programVars, timeVars, requestVars, lateVars>>

\* m4aFileSetSampleOffset on a file that m4aFileParse has parsed
m4aFileSetSampleOffset_Seek ==
    /\ ppc = "parsed"
    /\ \E seconds \in ReaderSeconds :
          LET sampleOffset == SampleOffsetAt(m4aFile.timescale, seconds, longWidth)
              atSizes == SeekSet(m4aFile, m4aFile.sizeOffset)
              atData == SeekSet(m4aFile, m4aFile.dataOffset)
              skipped == SkipSamples([m4aFile EXCEPT !.sizeStream = atSizes,
                                                     !.dataStream = atData], sampleOffset)
          IN  Called("m4aFileSetSampleOffset", seconds,
                     IF ~Less32(sampleOffset, m4aFile.samplesCount)
                     THEN Gives(sampleOffset, FALSE, m4aFile)
                     ELSE IF atSizes = NoPosition THEN Gives(sampleOffset, FALSE, m4aFile)
                     ELSE IF atData = NoPosition
                     THEN Gives(sampleOffset, FALSE, [m4aFile EXCEPT !.sizeStream = atSizes])
                     ELSE Gives(sampleOffset, skipped.ok, skipped.m))

\* fread of dataSize bytes from the data stream: less than dataSize bytes are left when
\* the stream is at or beyond the end of the file or too near to it
m4aFileReadData(m, dataSize) ==
    LET at == m.dataStream
        inside == at.high = 0 /\ at.low >= 0 /\ at.low <= Len(m.file)
        left == IF inside THEN Len(m.file) - at.low ELSE 0
    IN  IF dataSize >= 0 /\ dataSize <= left
        THEN Gives(dataSize, TRUE, [m EXCEPT !.dataStream.low = @ + dataSize])
        ELSE Gives(dataSize, FALSE,
                   Failure([m EXCEPT !.dataStream = IF inside THEN Position(0, Len(m.file))
                                                    ELSE at]))

\* m4aFileGetNextSample on a file that m4aFileParse has parsed
m4aFileGetNextSample ==
    /\ ppc = "parsed"
    /\ LET dataSize == read4ByteUnsignedInt32(m4aFile.file, m4aFile.sizeStream)
           moved == [m4aFile EXCEPT !.sizeStream = dataSize.at]
       IN  Called("m4aFileGetNextSample", 0,
                  IF dataSize.feof THEN Gives(0, FALSE, moved)
                  ELSE m4aFileReadData(moved, dataSize.value))

FileNext ==
    \/ ParseNext
    \/ m4aFileSetSampleOffset_Seek
    \/ m4aFileGetNextSample

FileSpec == FileInit /\ [][FileNext]_vars

FileFairSpec == FileInit /\ [][ParseNext]_vars /\ WF_vars(ParseNext)

ParseReturned == ppc \in {"parsed", "failed"}

\* C22: when a warning condition has occurred during a parse and m4aFileParse has
\* returned true, the status is M4AFILE_PARSED_WITH_WARNINGS
\* (m4aFileHasParsedWithWarnings is true)
C22_WarningsAreReported ==
    (ppc = "parsed" /\ m4aFile.warned) => m4aFile.status = "M4AFILE_PARSED_WITH_WARNINGS"

\* C23: m4aFileParse returns on every file
C23_ParseTerminates == <>ParseReturned

\* C24: a box that mp4BoxParse has parsed without the status becoming M4AFILE_ERROR leaves
\* the stream at the start of the box plus its declared size
C24_BoxEndsAtStartPlusSize ==
    (lastBox # NoBox /\ lastBox.status # "M4AFILE_ERROR") =>
        lastBox.after = Position(lastBox.start.high, lastBox.start.low + lastBox.boxSize)

\* C25: of the files with a version 1 mdhd box, the one with upper duration bits 0 is
\* parsed with the lower bits as duration, the one with all 64 bits 1 is parsed with the
\* duration left unset, and m4aFileParse returns false for the ones with other upper bits
C25_LongDurationsAreErrors ==
    ParseReturned =>
        /\ file = Files.version1 => ppc = "parsed" /\ m4aFile.duration = 8192
        /\ file = Files.unknownDuration => ppc = "parsed" /\ m4aFile.duration = 0
        /\ file \in {Files.longDuration, Files.mixedDuration} => ppc = "failed"

\* the sum of the stsz entries and the length of the mdat body of the files that have one
\* stsz box and one mdat box
SampleSizes ==
    [plain |-> <<6, 6>>, mdatFirst |-> <<6, 6>>, shortHandler |-> <<5, 5>>,
     shortData |-> <<6, 4>>, emptyTable |-> <<0, 4>>]

\* C26: after a successful parse of a file with one stsz box and one mdat box,
\* totalSampleSize is the smaller of the sum of the stsz entries and the mdat body length
C26_TotalSampleSizeIsSmaller ==
    \A name \in DOMAIN SampleSizes :
        (ppc = "parsed" /\ file = Files[name]) =>
            m4aFile.totalSampleSize
                = IF SampleSizes[name][1] < SampleSizes[name][2]
                  THEN SampleSizes[name][1] ELSE SampleSizes[name][2]

\* the file has an stsz box and an mdat box
HasTables == m4aFile.sizeOffset # UNUSED_OFFSET /\ m4aFile.dataOffset # UNUSED_OFFSET

\* every call of the reading functions since m4aFileParse returned true has returned true
ReadSoFar == ppc = "parsed" /\ reader.ok

\* the sum of the first sizes in the file from sizeOffset on: the stsz entries
RECURSIVE SizesBefore(_, _)
SizesBefore(m, index) ==
    IF index = 0 THEN 0
    ELSE SizesBefore(m, index - 1)
         + read4ByteUnsignedInt32(m.file, Position(0, m.sizeOffset + 4 * (index - 1))).value

\* C27: after a successful parse of a file with an stsz box and an mdat box and calls of
\* m4aFileSetSampleOffset and m4aFileGetNextSample that all returned true, the data
\* stream is at dataOffset plus the sum of the first i sizes of the table, i being
\* m4aFileGetCurrentSampleIndex
C27_DataCursorFollowsSizes ==
    (ReadSoFar /\ HasTables) =>
        m4aFile.dataStream
            = Position(0, m4aFile.dataOffset
                          + SizesBefore(m4aFile, m4aFileGetCurrentSampleIndex(m4aFile)))

\* m4aFileSetSampleOffset has skipped a sample and m4aFileGetNextSample has read the next
C27_SampleReadAfterSeek ==
    /\ ReadSoFar /\ HasTables
    /\ reader.last = "m4aFileGetNextSample"
    /\ reader.sampleOffset = 1
    /\ m4aFileGetCurrentSampleIndex(m4aFile) = 2

SampleOfTime(timescale, seconds) ==
    (timescale \div DEFAULT_FRAMES_PER_PACKET) * seconds
    + ((timescale % DEFAULT_FRAMES_PER_PACKET) * seconds) \div DEFAULT_FRAMES_PER_PACKET

\* C29: a call of m4aFileSetSampleOffset on a parsed file with an stsz box and an mdat
\* box returns false and leaves both streams where they were when the sample of the time
\* is not below samplesCount; otherwise it returns true and
\* m4aFileGetCurrentSampleIndex is the sample of the time
C29_SeekGoesToSampleOfTime ==
    (ppc = "parsed" /\ HasTables /\ reader.last = "m4aFileSetSampleOffset") =>
        IF SampleOfTime(m4aFile.timescale, reader.seconds) >= m4aFile.samplesCount
        THEN /\ ~reader.returned
             /\ m4aFile.dataStream = reader.dataStream
             /\ m4aFile.sizeStream = reader.sizeStream
        ELSE /\ reader.returned
             /\ m4aFileGetCurrentSampleIndex(m4aFile)
                    = SampleOfTime(m4aFile.timescale, reader.seconds)

(***************************************************************************)
(* The RTSP request (rtsprequest.c): texts are the codes of their          *)
(* characters.                                                             *)
(***************************************************************************)
HEADER_BUFFER_INITIAL_SIZE == 1024
HEADER_BUFFER_INCREMENT_SIZE == 512
MAX_COMMAND_STRING_SIZE == 13
MAX_URL_STRING_SIZE == 56

METHOD_NAMES ==
    [OPTIONS |-> <<79, 80, 84, 73, 79, 78, 83>>,
     ANNOUNCE |-> <<65, 78, 78, 79, 85, 78, 67, 69>>,
     SETUP |-> <<83, 69, 84, 85, 80>>,
     RECORD |-> <<82, 69, 67, 79, 82, 68>>,
     SET_PARAMETER |-> <<83, 69, 84, 95, 80, 65, 82, 65, 77, 69, 84, 69, 82>>,
     FLUSH |-> <<70, 76, 85, 83, 72>>,
     TEARDOWN |-> <<84, 69, 65, 82, 68, 79, 87, 78>>]

\* a buffer pointer that is NULL; an allocated buffer is the bytes written to it so far
NoBuffer == <<>>

rtspRequestCreate(requestMethod) ==
    [requestMethod |-> requestMethod, headerBuffer |-> NoBuffer, headerBufferSize |-> 0,
     maxHeaderBufferSize |-> 0, contentBuffer |-> NoBuffer, contentBufferSize |-> 0]

\* rtspRequestReset without contentBufferSize = 0
rtspRequestResetHeaderOnly(r, requestMethod) ==
    [r EXCEPT !.headerBuffer = IF @ # NoBuffer THEN <<0>> \o Tail(@) ELSE @,
              !.headerBufferSize = IF r.headerBuffer # NoBuffer THEN 1 ELSE 0,
              !.requestMethod = requestMethod]

\* rtspRequestReset without the emptying of the header buffer
rtspRequestResetContentOnly(r, requestMethod) ==
    [r EXCEPT !.contentBufferSize = 0, !.requestMethod = requestMethod]

\* rtspRequestReset keeps the buffers: the header buffer becomes the empty text
rtspRequestReset(r, requestMethod) ==
    [r EXCEPT !.headerBuffer = IF @ # NoBuffer THEN <<0>> \o Tail(@) ELSE @,
              !.headerBufferSize = IF r.headerBuffer # NoBuffer THEN 1 ELSE 0,
              !.contentBufferSize = 0,
              !.requestMethod = requestMethod]

\* snprintf(buffer + at, limit, ...) of a text: at most limit - 1 characters and the
\* terminating 0 are copied; the value is the length of the whole text
snprintf(buffer, at, limit, text) ==
    LET copied == IF limit = 0 THEN <<>>
                  ELSE (IF Len(text) < limit THEN text ELSE SubSeq(text, 1, limit - 1))
                       \o <<0>>
        end == IF Len(buffer) > at + Len(copied) THEN Len(buffer) ELSE at + Len(copied)
    IN  [buffer |-> [i \in 1..end |->
                        IF i > at /\ i <= at + Len(copied) THEN copied[i - at] ELSE buffer[i]],
         charsWritten |-> Len(text)]

\* bufferMakeRoom: the new size of a buffer that is too small
RECURSIVE NewSize(_, _, _)
NewSize(newSize, needed, incrementSize) ==
    IF needed > newSize THEN NewSize(newSize + incrementSize, needed, incrementSize)
    ELSE newSize

\* bufferMakeRoom of the header buffer: the bytes in use are copied to a larger buffer
\* when malloc gives one
bufferMakeRoom(r, requiredSize, allocated) ==
    IF r.headerBufferSize + requiredSize <= r.maxHeaderBufferSize THEN [ok |-> TRUE, r |-> r]
    ELSE IF ~allocated THEN [ok |-> FALSE, r |-> r]
    ELSE [ok |-> TRUE,
          r |-> [r EXCEPT !.headerBuffer = SubSeq(@, 1, r.headerBufferSize),
                          !.maxHeaderBufferSize =
                              NewSize(@ + HEADER_BUFFER_INCREMENT_SIZE,
                                      r.headerBufferSize + requiredSize,
                                      HEADER_BUFFER_INCREMENT_SIZE)]]

rtspRequestAddHeaderField(r, fieldName, fieldValue, allocated) ==
    LET initial == IF r.headerBuffer # NoBuffer THEN r
                   ELSE IF allocated
                   THEN [r EXCEPT !.maxHeaderBufferSize = HEADER_BUFFER_INITIAL_SIZE,
                                  !.headerBuffer = <<0>>, !.headerBufferSize = 1]
                   ELSE [r EXCEPT !.maxHeaderBufferSize = HEADER_BUFFER_INITIAL_SIZE]
        required == Len(fieldName) + Len(fieldValue) + 4
        room == bufferMakeRoom(initial, required, allocated)
        written == snprintf(room.r.headerBuffer, room.r.headerBufferSize - 1,
                            room.r.maxHeaderBufferSize - (room.r.headerBufferSize - 1),
                            fieldName \o <<58, 32>> \o fieldValue \o <<13, 10>>)
    IN  IF initial.headerBuffer = NoBuffer THEN [ok |-> FALSE, r |-> initial]
        ELSE IF ~room.ok
        THEN [ok |-> FALSE,
              r |-> [initial EXCEPT !.headerBuffer = NoBuffer, !.headerBufferSize = 0]]
        ELSE IF written.charsWritten # required
        THEN [ok |-> FALSE, r |-> [room.r EXCEPT !.headerBuffer = written.buffer]]
        ELSE [ok |-> TRUE,
              r |-> [room.r EXCEPT !.headerBuffer = written.buffer,
                                   !.headerBufferSize = @ + written.charsWritten]]

\* sprintf(contentSizeString, "%lu", contentSize)
RECURSIVE FormatUnsigned(_)
FormatUnsigned(n) ==
    IF n < 10 THEN <<48 + n>> ELSE FormatUnsigned(n \div 10) \o <<48 + (n % 10)>>

ContentType == <<67, 111, 110, 116, 101, 110, 116, 45, 84, 121, 112, 101>>
ContentLength == <<67, 111, 110, 116, 101, 110, 116, 45, 76, 101, 110, 103, 116, 104>>

\* rtspRequestSetContent; allocated: malloc gives the header buffers, contentAllocated:
\* malloc gives the content buffer
rtspRequestSetContent(r, content, contentType, allocated, contentAllocated) ==
    LET type == rtspRequestAddHeaderField(r, ContentType, contentType, allocated)
        length == rtspRequestAddHeaderField(type.r, ContentLength,
                                            FormatUnsigned(Len(content)), allocated)
    IN  IF ~type.ok THEN type
        ELSE IF ~length.ok THEN length
        ELSE IF ~contentAllocated
        THEN [ok |-> FALSE, r |-> [length.r EXCEPT !.contentBuffer = NoBuffer]]
        ELSE [ok |-> TRUE, r |-> [length.r EXCEPT !.contentBuffer = content,
                                                  !.contentBufferSize = Len(content)]]

\* rtspRequestSend: the request buffer that is handed to networkSendMessage
rtspRequestSend(r, url) ==
    LET maxRequestBufferSize == 12 + MAX_COMMAND_STRING_SIZE + MAX_URL_STRING_SIZE
                                + r.headerBufferSize - 1 + 2 + r.contentBufferSize
        command == snprintf(<<>>, 0, maxRequestBufferSize,
                            METHOD_NAMES[r.requestMethod] \o <<32>>
                            \o (IF r.requestMethod = "OPTIONS" THEN <<42>> ELSE url)
                            \o <<32, 82, 84, 83, 80, 47, 49, 46, 48, 13, 10>>)
        charsWritten == command.charsWritten
    IN  IF charsWritten + r.headerBufferSize - 1 + 2 + r.contentBufferSize
               > maxRequestBufferSize
        THEN [ok |-> FALSE, requestBuffer |-> <<>>]
        ELSE [ok |-> TRUE,
              requestBuffer |->
                  SubSeq(command.buffer, 1, charsWritten)
                  \o (IF r.headerBuffer # NoBuffer
                      THEN SubSeq(r.headerBuffer, 1, r.headerBufferSize - 1) ELSE <<>>)
                  \o <<13, 10>>
                  \o (IF r.contentBuffer # NoBuffer
                      THEN SubSeq(r.contentBuffer, 1, r.contentBufferSize) ELSE <<>>)]

\* the requests that are built: two methods, a short header field and one that does not
\* fit the initial header buffer, a content, at most MaxBuilt additions to a request and
\* MaxResets resets of it
Url == <<114, 116, 115, 112, 58, 47, 47, 104, 47, 49>>
LongValueSize == 1100
HeaderFields30 ==
    {[fieldName |-> <<67, 83, 101, 113>>, fieldValue |-> <<49>>],
     [fieldName |-> <<88>>, fieldValue |-> [i \in 1..LongValueSize |-> 120]]}
Contents == {[content |-> <<1, 2, 3>>, contentType |-> <<116, 47, 112>>]}
RequestMethods == {"OPTIONS", "SETUP"}
MaxBuilt == 2
MaxResets == 1

NothingBuilt(resets) == [additions |-> <<>>, ok |-> TRUE, resets |-> resets]
NothingSent == [requestBuffer |-> <<>>, requestMethod |-> "", additions |-> <<>>,
                ok |-> FALSE, resets |-> 0]

\* no request has been created (the pointer is NULL)
NoRTSPRequest == [requestMethod |-> "NULL"]

RequestInit ==
    /\ ProgramInit /\ TimeInit /\ NoFile /\ NoMain /\ NoReceive /\ NoDigest /\ NoBuffers
    /\ request = NoRTSPRequest
    /\ built = NothingBuilt(0)
    /\ sent = NothingSent

rtspRequestCreate_Call ==
    /\ request = NoRTSPRequest
    /\ \E requestMethod \in RequestMethods : request' = rtspRequestCreate(requestMethod)
    /\ UNCHANGED <<built, sent>>
    /\ UNCHANGED <<programVars, timeVars, fileVars, lateVars>>

rtspRequestReset_Call ==
    /\ request # NoRTSPRequest
    /\ built.resets < MaxResets
    /\ \E requestMethod \in RequestMethods : request' = rtspRequestReset(request, requestMethod)
    /\ built' = NothingBuilt(built.resets + 1)
    /\ sent' = NothingSent
    /\ UNCHANGED <<programVars, timeVars, fileVars, lateVars>>

Added(addition, r) ==
    /\ request' = r.r
    /\ built' = [built EXCEPT !.additions = Append(@, addition), !.ok = @ /\ r.ok]
    /\ sent' = NothingSent
    /\ UNCHANGED <<programVars, timeVars, fileVars, lateVars>>

rtspRequestAddHeaderField_Call ==
    /\ request # NoRTSPRequest
    /\ Len(built.additions) < MaxBuilt
    /\ \E field \in HeaderFields30, allocated \in BOOLEAN :
          Added(field, rtspRequestAddHeaderField(request, field.fieldName, field.fieldValue,
                                                 allocated))

rtspRequestSetContent_Call ==
    /\ request # NoRTSPRequest
    /\ Len(built.additions) < MaxBuilt
    /\ \E content \in Contents, allocated \in BOOLEAN, contentAllocated \in BOOLEAN :
          Added(content, rtspRequestSetContent(request, content.content, content.contentType,
                                               allocated, contentAllocated))

\* rtspRequestSend when the request buffer is allocated and the connection takes it
rtspRequestSend_Call ==
    /\ request # NoRTSPRequest
    /\ rtspRequestSend(request, Url).ok
    /\ sent' = [requestBuffer |-> rtspRequestSend(request, Url).requestBuffer,
                requestMethod |-> request.requestMethod, additions |-> built.additions,
                ok |-> built.ok, resets |-> built.resets]
    /\ UNCHANGED <<request, built>>
    /\ UNCHANGED <<programVars, timeVars, fileVars, lateVars>>

RequestNext ==
    \/ rtspRequestCreate_Call
    \/ rtspRequestReset_Call
    \/ rtspRequestAddHeaderField_Call
    \/ rtspRequestSetContent_Call
    \/ rtspRequestSend_Call

RequestSpec == RequestInit /\ [][RequestNext]_vars

\* a request that is created and given the additions, every malloc succeeding
RECURSIVE Build(_, _)
Build(r, additions) ==
    IF additions = <<>> THEN r
    ELSE LET addition == Head(additions)
         IN  Build(IF "content" \in DOMAIN addition
                   THEN rtspRequestSetContent(r, addition.content, addition.contentType,
                                              TRUE, TRUE).r
                   ELSE rtspRequestAddHeaderField(r, addition.fieldName, addition.fieldValue,
                                                  TRUE).r,
                   Tail(additions))
FirstTime(requestMethod, additions) ==
    rtspRequestSend(Build(rtspRequestCreate(requestMethod), additions), Url).requestBuffer

\* C30: the bytes sent for a request whose additions since it was created or last reset
\* all succeeded are the bytes sent for a newly created request of the same method with
\* the same additions
C30_ResetRequestSendsSameBytes ==
    (sent # NothingSent /\ sent.ok) =>
        sent.requestBuffer = FirstTime(sent.requestMethod, sent.additions)

\* a request that held the long header field and a content has been reset and sent
\* with a short header field
C30_SentAfterResets ==
    /\ sent.ok /\ sent.resets = MaxResets
    /\ Len(sent.additions) = 1
    /\ request.maxHeaderBufferSize > HEADER_BUFFER_INITIAL_SIZE
    /\ request.contentBuffer # NoBuffer
    /\ request.contentBufferSize = 0

(***************************************************************************)
(* light-play.c: main, from its arguments to its exit code, and the SIGINT  *)
(* handler.  What the functions that main calls do is in the sections       *)
(* above; here each of them returns one of the results it can return.       *)
(***************************************************************************)
\* the character of an argument at a position (from 1), "NUL" where it has ended
CharAt(argument, position) ==
    IF position <= Len(argument) THEN argument[position] ELSE "NUL"
\* the argument from a position on
From(argument, position) == SubSeq(argument, position, Len(argument))

NullString == <<"NULL">>
DefaultPortName == <<"5", "0", "0", "0">>

\* what main has after "Initialize"
NoArguments ==
    [url |-> NullString, password |-> NullString, portName |-> DefaultPortName,
     fileName |-> NullString, usage |-> FALSE]

\* strtoul(text, &ptr, 10), then *ptr: the character after an optional sign and the
\* digits, the first character when there is no digit
RECURSIVE AfterDigits(_, _)
AfterDigits(text, position) ==
    IF CharAt(text, position) \in {"0", "1", "2", "3", "4", "5", "6", "7", "8", "9"}
    THEN AfterDigits(text, position + 1)
    ELSE position
strtoul_ptr(text) ==
    LET start == IF CharAt(text, 1) \in {"+", "-"} THEN 2 ELSE 1
    IN  IF AfterDigits(text, start) = start THEN CharAt(text, 1)
        ELSE CharAt(text, AfterDigits(text, start))

\* the value of an option: the rest of the argument, or the next argument when the
\* argument ends after the option's letter (none: printUsage and return 1)
OptionValue(argv, i) ==
    IF CharAt(argv[i], 3) # "NUL" THEN [given |-> TRUE, value |-> From(argv[i], 3), i |-> i]
    ELSE IF i + 1 <= Len(argv) THEN [given |-> TRUE, value |-> argv[i + 1], i |-> i + 1]
    ELSE [given |-> FALSE, value |-> NullString, i |-> i]

Usage(a) == [a EXCEPT !.usage = TRUE]

\* "Parse command line arguments": the while loop from argument i on (argv[0] is left
\* out, i counts from 1)
RECURSIVE ParseArguments(_, _, _)
ParseOption(argv, i, a) ==
    LET option == CharAt(argv[i], 2)
        v == OptionValue(argv, i)
    IN  CASE option \in {"?", "h"} -> Usage(a)
          [] option = "c" ->
                IF v.given THEN ParseArguments(argv, v.i + 1, [a EXCEPT !.password = v.value])
                ELSE Usage(a)
          [] option = "p" ->
                IF v.given THEN ParseArguments(argv, v.i + 1, [a EXCEPT !.portName = v.value])
                ELSE Usage(a)
          [] option = "v" ->
                IF CharAt(argv[i], 3) \notin {"e", "w", "NUL", "i", "d"} THEN Usage(a)
                ELSE IF CharAt(argv[i], 3) # "NUL" /\ CharAt(argv[i], 4) # "NUL" THEN Usage(a)
                ELSE ParseArguments(argv, i + 1, a)
          [] option = "l" ->
                IF v.given THEN ParseArguments(argv, v.i + 1, a) ELSE Usage(a)
          [] option = "o" ->
                IF ~v.given THEN Usage(a)
                ELSE IF strtoul_ptr(v.value) # "NUL" THEN Usage(a)
                ELSE ParseArguments(argv, v.i + 1, a)
          [] OTHER -> Usage(a)
ParseArguments(argv, i, a) ==
    IF i > Len(argv) THEN a
    ELSE IF CharAt(argv[i], 1) = "-" /\ CharAt(argv[i], 2) # "-" THEN ParseOption(argv, i, a)
    ELSE IF CharAt(argv[i], 1) = "-"
    THEN IF a.url = NullString THEN Usage(a)
         ELSE ParseArguments(argv, i + 1, [a EXCEPT !.fileName = From(argv[i], 2)])
    ELSE IF a.url = NullString THEN ParseArguments(argv, i + 1, [a EXCEPT !.url = argv[i]])
    ELSE IF a.fileName = NullString
    THEN ParseArguments(argv, i + 1, [a EXCEPT !.fileName = argv[i]])
    ELSE Usage(a)

\* "Check parameters"
CheckParameters(a) == IF a.url = NullString THEN Usage(a) ELSE a

\* command lines (argv[1] and on)
Host == <<"t", "v">>
File == <<"a", ".", "m", "4", "a">>
CommandLines ==
    { <<>>, <<Host>>, <<Host, File>>, <<Host, File, File>>, <<<<"-", "h">>>>,
      <<<<"-", "c">>, <<"p", "w">>, Host, File>>, <<<<"-", "c", "p", "w">>, Host, File>>,
      <<Host, File, <<"-", "c">>>>, <<<<"-", "v", "d">>, Host, File>>,
      <<<<"-", "v", "x">>, Host, File>>, <<<<"-", "o", "1", "0">>, Host, File>>,
      <<<<"-", "o">>, <<"1", "s">>, Host, File>>, <<<<"-", "x">>, Host, File>>,
      <<Host, <<"-", "-", "a">>>>, <<<<"-", "-", "a">>, Host>>, <<<<"-">>, Host, File>>,
      <<<<"-", "p">>, <<"8", "0">>, Host, File>> }

\* main is called with a command line
MainStarts(argv) ==
    [pc |-> "arguments", argv |-> argv, arguments |-> NoArguments, raopClient |-> "NULL",
     thread |-> "none", failed |-> {}, signals |-> 0, exitCode |-> 0 - 1]

\* return from main with an exit code; the process is ended by a signal, without one
Exit(m, exitCode) == [m EXCEPT !.pc = "exit", !.exitCode = exitCode]
Killed(m) == [m EXCEPT !.pc = "killed"]
Fails(m, step) == [m EXCEPT !.failed = @ \cup {step}]

MainAt(label) == main.pc = label
MainBecomes(m) ==
    /\ main' = m
    /\ UNCHANGED <<programVars, timeVars, fileVars, requestVars, receive, digest, buffers>>

\* the arguments are parsed and checked
main_Arguments ==
    /\ MainAt("arguments")
    /\ LET a == CheckParameters(ParseArguments(main.argv, 1, NoArguments))
       IN  MainBecomes(IF a.usage THEN Exit(Fails([main EXCEPT !.arguments = a], "arguments"), 1)
                       ELSE [main EXCEPT !.arguments = a, !.pc = "m4aFileOpen"])

\* m4aFileOpen: with a file name it returns the file or NULL; without one fopen is
\* called with NULL, which is undefined: it fails or the process is killed
main_m4aFileOpen ==
    /\ MainAt("m4aFileOpen")
    /\ \E outcome \in {"ok", "NULL", "killed"} :
          /\ outcome = "ok" => main.arguments.fileName # NullString
          /\ outcome = "killed" => main.arguments.fileName = NullString
          /\ MainBecomes(CASE outcome = "ok" -> [main EXCEPT !.pc = "m4aFileParse"]
                           [] outcome = "NULL" -> Exit(Fails(main, "m4aFileOpen"), 1)
                           [] OTHER -> Killed(Fails(main, "m4aFileOpen")))

main_m4aFileParse ==
    /\ MainAt("m4aFileParse")
    /\ \E ok \in BOOLEAN :
          MainBecomes(IF ok THEN [main EXCEPT !.pc = "raopClientOpenConnection"]
                      ELSE Exit(Fails(main, "m4aFileParse"), 1))

main_raopClientOpenConnection ==
    /\ MainAt("raopClientOpenConnection")
    /\ \E ok \in BOOLEAN :
          MainBecomes(IF ok THEN [main EXCEPT !.pc = "raopClientPlayM4AFile",
                                              !.raopClient = "open"]
                      ELSE Exit(Fails(main, "raopClientOpenConnection"), 1))

\* raopClientPlayM4AFile returns true with the audio thread started, or false (the
\* connection and the file are closed then)
main_raopClientPlayM4AFile ==
    /\ MainAt("raopClientPlayM4AFile")
    /\ \E ok \in BOOLEAN :
          MainBecomes(IF ok THEN [main EXCEPT !.pc = "raopClientWait", !.thread = "running"]
                      ELSE Exit(Fails([main EXCEPT !.raopClient = "NULL"],
                                      "raopClientPlayM4AFile"), 1))

\* the audio thread ends: all samples are sent and played, or a send has failed
raopClientSendAudio_Ends ==
    /\ main.pc # "none" /\ main.thread = "running"
    /\ \E ok \in BOOLEAN :
          MainBecomes(IF ok THEN [main EXCEPT !.thread = "finished"]
                      ELSE Fails([main EXCEPT !.thread = "failed"], "raopClientSendAudio"))

\* raopClientWait returns once the audio thread has ended: true, or false when
\* pthread_join fails; main does not look at the result
main_raopClientWait ==
    /\ MainAt("raopClientWait")
    /\ main.thread # "running"
    /\ \E ok \in BOOLEAN :
          /\ ~ok => main.thread \in {"finished", "failed"}
          /\ MainBecomes(IF ok THEN [main EXCEPT !.pc = "raopClientCloseConnection"]
                         ELSE Fails([main EXCEPT !.pc = "raopClientCloseConnection"],
                                    "raopClientWait"))

\* raopClientCloseConnection returns true or false; main does not look at the result
main_raopClientCloseConnection ==
    /\ MainAt("raopClientCloseConnection")
    /\ \E ok \in BOOLEAN :
          MainBecomes(IF ok THEN [main EXCEPT !.pc = "m4aFileClose", !.raopClient = "NULL"]
                      ELSE Fails([main EXCEPT !.pc = "m4aFileClose", !.raopClient = "NULL"],
                                 "raopClientCloseConnection"))

main_m4aFileClose ==
    /\ MainAt("m4aFileClose")
    /\ \E ok \in BOOLEAN :
          MainBecomes(IF ok THEN [main EXCEPT !.pc = "bufferGetBuffersInUse"]
                      ELSE Exit(Fails(main, "m4aFileClose"), 1))

\* "Check if all open buffers are closed", then return 0
main_bufferGetBuffersInUse ==
    /\ MainAt("bufferGetBuffersInUse")
    /\ \E buffersInUse \in {0, 1} :
          MainBecomes(IF buffersInUse = 0 THEN Exit(main, 0)
                      ELSE Exit(Fails(main, "bufferGetBuffersInUse"), 1))

\* SIGINT once the handler is set: signalHandler calls raopClientGetProgress and
\* raopClientStopPlaying with the static raopClient, which is NULL before
\* raopClientOpenConnection has returned and after raopClientCloseConnection (the
\* process is killed); raopClientStopPlaying stops an audio thread that runs, its result
\* (false when the join, FLUSH or TEARDOWN fails) is not looked at
MaxMainSignals == 1
main_signalHandler ==
    /\ main.pc \notin {"none", "arguments", "exit", "killed"}
    /\ main.signals < MaxMainSignals
    /\ \E ok \in BOOLEAN :
          /\ ~ok => main.raopClient # "NULL" /\ main.thread = "running"
          /\ MainBecomes(
                LET m == [main EXCEPT !.signals = @ + 1]
                IN  IF main.raopClient = "NULL" THEN Killed(m)
                    ELSE IF main.thread # "running" THEN m
                    ELSE IF ok THEN [m EXCEPT !.thread = "stopped"]
                    ELSE Fails([m EXCEPT !.thread = "stopped"], "raopClientStopPlaying"))

MainInit ==
    /\ ProgramInit /\ TimeInit /\ NoFile /\ NoRequestBuilt /\ NoReceive /\ NoDigest /\ NoBuffers
    /\ \E argv \in CommandLines : main = MainStarts(argv)

MainNext ==
    \/ main_Arguments
    \/ main_m4aFileOpen
    \/ main_m4aFileParse
    \/ main_raopClientOpenConnection
    \/ main_raopClientPlayM4AFile
    \/ raopClientSendAudio_Ends
    \/ main_raopClientWait
    \/ main_raopClientCloseConnection
    \/ main_m4aFileClose
    \/ main_bufferGetBuffersInUse
    \/ main_signalHandler

MainSpec == MainInit /\ [][MainNext]_vars

Exited == main.pc = "exit"

\* C31: main returns 0 exactly when no step of the run has failed, and 1 when a step
\* has failed: wrong arguments, the file not opened or not parsed, the connection not
\* opened, the play not started, a failure while streaming, in the wait or in the close,
\* buffers that are left
C31_ExitCodeTellsWhetherAStepFailed ==
    Exited => (main.exitCode = 0 <=> main.failed = {})

\* C32: when SETUP has succeeded on a response whose Transport header announces a
\* server_port P from 1 to 65535, the audio connection is opened to port P: the port
\* raopClientSetupAudioConnection prints as the service name is audioPort, which is P
C32_AudioPortIsAnnouncedServerPort ==
    (alive /\ pc["fg"] = "play_audio" /\ responseBuffer.port # NoHeader
        /\ DecimalNumber(responseBuffer.port) \in 1..65535)
    => (AudioPortNamesService /\ audioPort = DecimalNumber(responseBuffer.port))

\* ------------------------------------------------------------------
\* rtspresponse.c: rtspResponseReceive, buffer.c: voidBufferMakeRoom
\* ------------------------------------------------------------------
RESPONSE_BUFFER_INITIAL_SIZE == 1024
RESPONSE_BUFFER_INCREMENT_SIZE == 512

MaxPeerBytes == 4096
MaxResponses == 2

\* Sizes of the pieces the receiver's answers arrive in, and of what one
\* recv call may hand over (besides everything it is allowed to take).
PeerMessageSizes == {200, 512, 1024, 1536, 2048}
ReceivedSizes == {1, 200, 512, 1024, 1536}

Smallest(a, b) == IF a <= b THEN a ELSE b

RECURSIVE voidBufferMakeRoom_NewSize(_, _, _)
voidBufferMakeRoom_NewSize(newSize, required, incrementSize) ==
    IF required > newSize
    THEN voidBufferMakeRoom_NewSize(newSize + incrementSize, required, incrementSize)
    ELSE newSize

\* The capacity voidBufferMakeRoom leaves behind when its allocation succeeds.
voidBufferMakeRoom(maxBufferSize, bufferSize, requiredSize, incrementSize) ==
    IF bufferSize + requiredSize <= maxBufferSize
    THEN maxBufferSize
    ELSE voidBufferMakeRoom_NewSize(maxBufferSize + incrementSize, bufferSize + requiredSize, incrementSize)

\* What recv may return for maxMessageSize bytes asked on the TCP socket.
recv(r, maxMessageSize) ==
    IF r.queued = 0
    THEN {0}
    ELSE {n \in ReceivedSizes \cup {Smallest(r.queued, maxMessageSize)} :
            n <= r.queued /\ n <= maxMessageSize}

ResponseNew ==
    [pc |-> "idle", responseBuffer |-> "NULL", responseBufferSize |-> 0,
     maxResponseBufferSize |-> 0, written |-> 0, queued |-> 0,
     peerLeft |-> MaxPeerBytes, closed |-> FALSE, responses |-> 0, result |-> "none"]

ReceiveAt(label) == receive.pc = label

ReceiveBecomes(r) ==
    /\ receive' = r
    /\ UNCHANGED <<programVars, timeVars, fileVars, requestVars, main, digest, buffers>>

\* The receiver puts more bytes of its answers on the connection.
Peer_Sends ==
    /\ receive.pc \in {"idle", "makeRoom", "receive", "check"}
    /\ ~receive.closed
    /\ \E n \in PeerMessageSizes :
        /\ n <= receive.peerLeft
        /\ ReceiveBecomes([receive EXCEPT !.queued = @ + n, !.peerLeft = @ - n])

Peer_Closes ==
    /\ receive.pc \in {"idle", "makeRoom", "receive", "check"}
    /\ ~receive.closed
    /\ ReceiveBecomes([receive EXCEPT !.closed = TRUE])

rtspResponseReceive_Allocated(r) ==
    [r EXCEPT !.pc = "makeRoom", !.responseBufferSize = 0, !.written = 0, !.result = "none"]

rtspResponseReceive_Start ==
    /\ ReceiveAt("idle")
    /\ receive.responses < MaxResponses
    /\ IF receive.responseBuffer = "NULL"
       THEN \/ ReceiveBecomes(rtspResponseReceive_Allocated(
                   [receive EXCEPT !.responseBuffer = "allocated",
                                   !.maxResponseBufferSize = RESPONSE_BUFFER_INITIAL_SIZE]))
            \/ ReceiveBecomes([receive EXCEPT !.pc = "returned",
                                   !.maxResponseBufferSize = RESPONSE_BUFFER_INITIAL_SIZE,
                                   !.result = "false"])
       ELSE ReceiveBecomes(rtspResponseReceive_Allocated(receive))

rtspResponseReceive_MakeRoom ==
    /\ ReceiveAt("makeRoom")
    /\ \/ ReceiveBecomes([receive EXCEPT
              !.pc = "receive",
              !.maxResponseBufferSize =
                  voidBufferMakeRoom(@, receive.responseBufferSize,
                      RESPONSE_BUFFER_INCREMENT_SIZE, RESPONSE_BUFFER_INCREMENT_SIZE)])
       \/ /\ receive.responseBufferSize + RESPONSE_BUFFER_INCREMENT_SIZE > receive.maxResponseBufferSize
          /\ ReceiveBecomes([receive EXCEPT !.pc = "returned", !.responseBuffer = "NULL",
                                 !.responseBufferSize = 0, !.written = 0, !.result = "false"])

\* networkReceiveMessage(connection, responseBuffer + responseBufferSize,
\* maxResponseBufferSize, &receivedMessageSize): recv blocks while nothing is
\* queued and the receiver has not closed the connection.
rtspResponseReceive_Message ==
    /\ ReceiveAt("receive")
    /\ receive.queued > 0 \/ receive.closed
    /\ \/ \E receivedMessageSize \in recv(receive, receive.maxResponseBufferSize) :
            ReceiveBecomes([receive EXCEPT
                !.pc = "check",
                !.queued = @ - receivedMessageSize,
                !.written = receive.responseBufferSize + receivedMessageSize,
                !.responseBufferSize = @ + receivedMessageSize])
       \/ ReceiveBecomes([receive EXCEPT !.pc = "returned", !.result = "false"])

\* Bytes were stored behind the end of the allocation: what the program does
\* from here on is not defined.
rtspResponseReceive_Overrun ==
    /\ ReceiveAt("check")
    /\ receive.written > receive.maxResponseBufferSize
    /\ ReceiveBecomes([receive EXCEPT !.pc = "undefined"])

\* The loop condition: the buffer is exactly full and a byte can be peeked.
rtspResponseReceive_Check ==
    /\ ReceiveAt("check")
    /\ receive.written <= receive.maxResponseBufferSize
    /\ IF receive.responseBufferSize = receive.maxResponseBufferSize /\ receive.queued >= 1
       THEN ReceiveBecomes([receive EXCEPT !.pc = "makeRoom"])
       ELSE ReceiveBecomes([receive EXCEPT !.pc = "idle", !.responses = @ + 1, !.result = "true"])

ReceiveInit ==
    /\ ProgramInit /\ TimeInit /\ NoFile /\ NoRequestBuilt /\ NoMain /\ NoDigest /\ NoBuffers
    /\ receive = ResponseNew

ReceiveNext ==
    \/ Peer_Sends
    \/ Peer_Closes
    \/ rtspResponseReceive_Start
    \/ rtspResponseReceive_MakeRoom
    \/ rtspResponseReceive_Message
    \/ rtspResponseReceive_Overrun
    \/ rtspResponseReceive_Check

ReceiveSpec == ReceiveInit /\ [][ReceiveNext]_vars

\* C33: while a response is received, the number of bytes stored never
\* exceeds the capacity of the response buffer, whatever pieces the response
\* arrives in.
C33_StoredBytesFitResponseBuffer ==
    receive.pc \in {"makeRoom", "receive", "check", "idle", "returned"}
        => receive.responseBufferSize <= receive.maxResponseBufferSize

\* ------------------------------------------------------------------
\* raopclient.c: raopClientStopPlaying called when nothing is to be stopped
\* ------------------------------------------------------------------
TimesSent(method) == Cardinality({i \in DOMAIN methods : methods[i] = method})

\* a call of raopClientStopPlaying in frame c has sent its TEARDOWN and returned
StopReturned(c) ==
    /\ stopSteps[c] # <<>>
    /\ pc[c] = ReturnPc(c)
    /\ StepNames(stopSteps[c])[Len(stopSteps[c])] = "TEARDOWN"

\* the foreground is between two calls and a call of raopClientStopPlaying would
\* be one before any raopClientPlayM4AFile, one after an earlier
\* raopClientStopPlaying, or one after the audio thread ended normally and was joined
StopHasNothingToStop ==
    /\ FgAt("api")
    /\ \/ ~played
       \/ \E c \in Frames : StopReturned(c)
       \/ thread = "joined" /\ workerError = "none"

\* a call of raopClientStopPlaying that finds isSendingAudio false returns true
\* from its first statement
StopReturnsAtOnce ==
    \A c \in Frames :
        (pc[c] = "stop_check" /\ pc'[c] # "stop_check" /\ ~isSendingAudio)
            => (pc'[c] = ReturnPc(c) /\ result'[c] /\ methods' = methods
                    /\ isSendingAudio' = isSendingAudio /\ stopSteps'[c] = <<>>)

C34_IdleStopDoesNothing == [](StopHasNothingToStop => ~isSendingAudio)
C34_IdleStopReturnsTrue == [][StopReturnsAtOnce]_vars
C34_FlushAndTeardownOnce == [](TimesSent("FLUSH") <= 1 /\ TimesSent("TEARDOWN") <= 1)

\* C34: raopClientStopPlaying is idempotent: called before any
\* raopClientPlayM4AFile, after an earlier raopClientStopPlaying or after
\* raopClientWait has joined an audio thread that ended normally, it returns
\* true and sends no request; FLUSH and TEARDOWN are each sent at most once
\* in a session.
C34_StopIsIdempotent ==
    /\ C34_IdleStopDoesNothing
    /\ C34_IdleStopReturnsTrue
    /\ C34_FlushAndTeardownOnce

\* ------------------------------------------------------------------
\* rtspclient.c: the realm and nonce of the session
\* ------------------------------------------------------------------
\* the session holds a realm or a nonce taken from a 401 response
ChallengeCaptured == realmSize > 0 \/ nonceSize > 0

\* a step leaves the captured realm and nonce as they are, and a request sent
\* in it with an Authorization field carries them
KeepsCapturedChallenge ==
    ChallengeCaptured =>
        /\ realm' = realm /\ realmSize' = realmSize
        /\ nonce' = nonce /\ nonceSize' = nonceSize
        /\ (lastRequest' # lastRequest /\ lastRequest'.auth # <<>>)
               => lastRequest'.auth = <<realm, nonce>>

\* C35: the realm and nonce used for the Authorization fields are those of
\* the first challenge the client took them from: once the session holds
\* them, no later 401 response changes them, and the retransmission and
\* every later request carry them.
C35_ChallengeIsKeptForTheSession == [][KeepsCapturedChallenge]_vars

\* ------------------------------------------------------------------
\* light-play.c -c, raopclient.c raopClientOpenConnection, rtspclient.c
\* rtspClientAddAuthenticationFields: two runs that differ in the password
\* ------------------------------------------------------------------
MaxDigestCommands == 2

RECURSIVE Text(_)
\* the characters of a C string as one string
Text(chars) == IF chars = <<>> THEN "" ELSE Head(chars) \o Text(Tail(chars))

\* the command lines of the runs: no -c, -c pw, -cgeheim, -c x
DigestCommandLines ==
    { <<Host, File>>,
      <<<<"-", "c">>, <<"p", "w">>, Host, File>>,
      <<<<"-", "c", "g", "e", "h", "e", "i", "m">>, Host, File>>,
      <<Host, <<"-", "c">>, <<"x">>, File>> }

DigestMethods == {"OPTIONS", "ANNOUNCE"}

\* what the receiver answers: 200, or 401 with one of the challenges
DigestResponses ==
    { [status |-> 200, auth |-> NoChallenge] }
    \cup { [status |-> RTSP_RESPONSE_NEED_AUTHENTICATION, auth |-> c] :
               c \in {BasicChallenge, DigestChallenge, OtherDigestChallenge, EmptyRealmChallenge} }

\* MD5_Init, MD5_Update for each piece, MD5_Final; the digest printed with %02X
MD5_Final(pieces) == [md5 |-> pieces]
DigestString(md5) == [hex |-> md5]

\* an rtspClientAddAuthenticationFields that takes the password of the command line
DigestHA1WithPassword(run) ==
    MD5_Final(<<"iTunes", ":", run.realm, ":",
                IF run.arguments.password = NullString THEN "geheim"
                ELSE Text(run.arguments.password)>>)

\* HA1 = MD5(username:realm:password) as rtspClientAddAuthenticationFields computes it
DigestHA1(run) == MD5_Final(<<"iTunes", ":", run.realm, ":", "geheim">>)

DigestHA2(run, method) == MD5_Final(<<method, ":", run.url>>)

DigestResponse(run, method) ==
    MD5_Final(<<DigestString(DigestHA1(run)), ":", run.nonce, ":",
                DigestString(DigestHA2(run, method))>>)

\* the Authorization field: Digest username="iTunes", realm=, nonce=, uri=, response=
AuthenticationValue(run, method) ==
    [username |-> "iTunes", realm |-> run.realm, nonce |-> run.nonce, uri |-> run.url,
     response |-> DigestString(DigestResponse(run, method))]

NoAuthorization ==
    [username |-> "", realm |-> "", nonce |-> "", uri |-> "", response |-> DigestString(MD5_Final(<<>>))]

\* main up to raopClientOpenConnection(url, portName, password): the function
\* takes the host name and the port name, rtspClientOpenConnection sets the url
\* and the session information
RunOpened(argv, arguments) ==
    [pc |-> "command", argv |-> argv, arguments |-> arguments,
     url |-> "rtsp://" \o Text(arguments.url) \o "/1",
     sequenceNumber |-> 0, needAuthentication |-> FALSE,
     realm |-> "", realmSize |-> 0, nonce |-> "", nonceSize |-> 0,
     method |-> "", auth |-> NoChallenge, commands |-> 0, sent |-> <<>>]

RunStarts(argv) == RunOpened(argv, ParseArguments(argv, 1, NoArguments))

\* rtspClientAddAuthenticationFields: realm and nonce of the session, read from
\* the last response when the session holds none
RunWithChallenge(run, got) ==
    IF (run.realmSize = 0 \/ run.nonceSize = 0) /\ got.ok
    THEN [run EXCEPT !.realm = got.realm, !.realmSize = got.realmSize,
                     !.nonce = got.nonce, !.nonceSize = got.nonceSize]
    ELSE run

RunAuthorization(run, got, method) ==
    IF (run.realmSize = 0 \/ run.nonceSize = 0) /\ ~got.ok
    THEN NoAuthorization
    ELSE AuthenticationValue(RunWithChallenge(run, got), method)

\* rtspClientSendRequest: CSeq, the Authorization field when
\* rtspClientAddHeaderFields asks for it, the request handed to the connection
RunSendsAuthorized(run, got, method, next) ==
    [RunWithChallenge(run, got) EXCEPT
        !.pc = next, !.method = method, !.sequenceNumber = @ + 1,
        !.sent = Append(@, [method |-> method, cseq |-> run.sequenceNumber + 1,
                            authorization |-> RunAuthorization(run, got, method)])]

RunSendsPlain(run, method, next) ==
    [run EXCEPT
        !.pc = next, !.method = method, !.sequenceNumber = @ + 1,
        !.sent = Append(@, [method |-> method, cseq |-> run.sequenceNumber + 1,
                            authorization |-> NoAuthorization])]

RunSendRequest(run, method, next) ==
    IF run.needAuthentication \/ (run.realmSize > 0 /\ run.nonceSize > 0)
    THEN RunSendsAuthorized(run, rtspResponseGetAuthenticationResponse([auth |-> run.auth]),
                            method, next)
    ELSE RunSendsPlain(run, method, next)

\* rtspClientReceiveResponse: 401 sets needAuthentication, 200 clears it
RunReceiveResponse(run, response) ==
    [run EXCEPT !.auth = response.auth,
                !.needAuthentication = (response.status = RTSP_RESPONSE_NEED_AUTHENTICATION),
                !.pc = IF @ = "sent1" THEN "rcvd1" ELSE "rcvd2"]

\* rtspClientSendCommand after the first response: repeat the request when
\* authentication is required, else the command is done
RunAfterResponse(run) ==
    IF run.pc = "rcvd1" /\ run.needAuthentication
    THEN RunSendRequest(run, run.method, "sent2")
    ELSE [run EXCEPT !.pc = "command", !.commands = @ + 1]

DigestBecomes(d) ==
    /\ digest' = d
    /\ UNCHANGED <<programVars, timeVars, fileVars, requestVars, main, receive, buffers>>

Runs2 == {1, 2}

\* both runs start main and open the connection
digest_raopClientOpenConnection ==
    /\ digest.pc = "start"
    /\ DigestBecomes([pc |-> "run", run |-> [k \in Runs2 |-> RunStarts(digest.argv[k])]])

\* both runs send the request of their next command
digest_rtspClientSendCommand ==
    /\ digest.pc = "run"
    /\ \A k \in Runs2 : digest.run[k].pc = "command" /\ digest.run[k].commands < MaxDigestCommands
    /\ \E method \in DigestMethods :
          DigestBecomes([digest EXCEPT
              !.run = [k \in Runs2 |-> RunSendRequest(digest.run[k], method, "sent1")]])

\* the receiver answers both runs alike
digest_rtspClientReceiveResponse ==
    /\ digest.pc = "run"
    /\ \A k \in Runs2 : digest.run[k].pc \in {"sent1", "sent2"}
    /\ \E response \in DigestResponses :
          DigestBecomes([digest EXCEPT
              !.run = [k \in Runs2 |-> RunReceiveResponse(digest.run[k], response)]])

\* both runs repeat the request with the Authorization field, or end the command
digest_rtspClientSendCommand_Continue ==
    /\ digest.pc = "run"
    /\ \A k \in Runs2 : digest.run[k].pc \in {"rcvd1", "rcvd2"}
    /\ DigestBecomes([digest EXCEPT !.run = [k \in Runs2 |-> RunAfterResponse(digest.run[k])]])

DigestInit ==
    /\ ProgramInit /\ TimeInit /\ NoFile /\ NoRequestBuilt /\ NoMain /\ NoReceive /\ NoBuffers
    /\ \E a, b \in DigestCommandLines :
          /\ ParseArguments(a, 1, NoArguments).password # ParseArguments(b, 1, NoArguments).password
          /\ digest = [pc |-> "start", argv |-> <<a, b>>]

DigestNext ==
    \/ digest_raopClientOpenConnection
    \/ digest_rtspClientSendCommand
    \/ digest_rtspClientReceiveResponse
    \/ digest_rtspClientSendCommand_Continue

DigestSpec == DigestInit /\ [][DigestNext]_vars

\* the Authorization value RFC 2617 gives for user iTunes and password geheim
DigestOfGeheim(req, url) ==
    [username |-> "iTunes", realm |-> req.authorization.realm,
     nonce |-> req.authorization.nonce, uri |-> url,
     response |-> DigestString(MD5_Final(
         <<DigestString(MD5_Final(<<"iTunes", ":", req.authorization.realm, ":", "geheim">>)),
           ":", req.authorization.nonce, ":",
           DigestString(MD5_Final(<<req.method, ":", url>>))>>))]

MaxBufferRequests == 2
MaxAudioMessages == 2

BufferThreads == {"fg", "audio"}

\* Where a thread goes on after the bufferAllocate or bufferFree at a label.
\* The foreground: raopClientOpenConnection allocates, raopClientPlayM4AFile
\* creates the audio thread, each raopClientSetVolume has rtspRequestSend
\* allocate and free the request buffer, raopClientWait joins,
\* raopClientCloseConnection frees, main reads the counter.  The audio thread:
\* raopClientSendAudioMessages allocates the audio message, sends, frees it.
AfterBuffer ==
    [open_allocate |-> "play", send_allocate |-> "send_free", send_free |-> "api",
     close_free |-> "check", audio_allocate |-> "audio_send", audio_free |-> "audio_exit"]

AllocateLabels == {"open_allocate", "send_allocate", "audio_allocate"}
FreeLabels == {"send_free", "close_free", "audio_free"}

\* where a thread goes on when malloc returns NULL
AfterFailedAllocate ==
    [open_allocate |-> "done", send_allocate |-> "api", audio_allocate |-> "audio_exit"]

BuffersNew ==
    [pc |-> [fg |-> "open_allocate", audio |-> "none"],
     counting |-> [t \in BufferThreads |-> FALSE],
     loaded |-> [t \in BufferThreads |-> 0],
     bufferAllocateCount |-> 0,
     inUse |-> 0, requests |-> 0, messages |-> 0, checked |-> 0 - 1]

BuffersBecome(b) ==
    /\ buffers' = b
    /\ UNCHANGED <<programVars, timeVars, fileVars, requestVars, main, receive, digest>>

\* voidBufferAllocate: malloc, *buffer = newBuffer, and the counter is read
voidBufferAllocate_Malloc(t) ==
    /\ buffers.pc[t] \in AllocateLabels /\ ~buffers.counting[t]
    /\ \/ BuffersBecome([buffers EXCEPT !.inUse = @ + 1, !.counting[t] = TRUE,
                                        !.loaded[t] = buffers.bufferAllocateCount])
       \/ BuffersBecome([buffers EXCEPT !.pc[t] = AfterFailedAllocate[buffers.pc[t]]])

\* voidBufferAllocate: bufferAllocateCount++ stores the value read plus one
voidBufferAllocate_Increment(t) ==
    /\ buffers.pc[t] \in AllocateLabels /\ buffers.counting[t]
    /\ BuffersBecome([buffers EXCEPT !.bufferAllocateCount = buffers.loaded[t] + 1,
                                     !.counting[t] = FALSE,
                                     !.pc[t] = AfterBuffer[buffers.pc[t]]])

\* voidBufferFree: free, *buffer = NULL, and the counter is read
voidBufferFree_Free(t) ==
    /\ buffers.pc[t] \in FreeLabels /\ ~buffers.counting[t]
    /\ BuffersBecome([buffers EXCEPT !.inUse = @ - 1, !.counting[t] = TRUE,
                                     !.loaded[t] = buffers.bufferAllocateCount])

\* voidBufferFree: bufferAllocateCount-- stores the value read minus one
voidBufferFree_Decrement(t) ==
    /\ buffers.pc[t] \in FreeLabels /\ buffers.counting[t]
    /\ BuffersBecome([buffers EXCEPT !.bufferAllocateCount = buffers.loaded[t] - 1,
                                     !.counting[t] = FALSE,
                                     !.pc[t] = AfterBuffer[buffers.pc[t]]])

\* raopClientStartPlaying: pthread_create
buffers_pthread_create ==
    /\ buffers.pc["fg"] = "play"
    /\ BuffersBecome([buffers EXCEPT !.pc["fg"] = "api", !.pc["audio"] = "audio_allocate"])

\* raopClientSetVolume while the audio is sent: rtspRequestSend is called
buffers_raopClientSetVolume ==
    /\ buffers.pc["fg"] = "api"
    /\ buffers.requests < MaxBufferRequests
    /\ BuffersBecome([buffers EXCEPT !.pc["fg"] = "send_allocate", !.requests = @ + 1])

\* raopClientSendAudioMessages: one more message is sent, or the loop ends
buffers_raopClientSendAudioMessages ==
    /\ buffers.pc["audio"] = "audio_send"
    /\ \/ /\ buffers.messages < MaxAudioMessages
          /\ BuffersBecome([buffers EXCEPT !.messages = @ + 1])
       \/ BuffersBecome([buffers EXCEPT !.pc["audio"] = "audio_free"])

\* raopClientWait: pthread_join returns once the audio thread has ended
buffers_raopClientWait ==
    /\ buffers.pc["fg"] = "api"
    /\ buffers.pc["audio"] = "audio_exit"
    /\ BuffersBecome([buffers EXCEPT !.pc["fg"] = "close_free", !.pc["audio"] = "joined"])

\* main: bufferGetBuffersInUse() != 0
buffers_bufferGetBuffersInUse ==
    /\ buffers.pc["fg"] = "check"
    /\ BuffersBecome([buffers EXCEPT !.pc["fg"] = "done",
                                     !.checked = buffers.bufferAllocateCount])

BufferInit ==
    /\ ProgramInit /\ TimeInit /\ NoFile /\ NoRequestBuilt /\ NoMain /\ NoReceive /\ NoDigest
    /\ buffers = BuffersNew

BufferNext ==
    \/ \E t \in BufferThreads : voidBufferAllocate_Malloc(t)
    \/ \E t \in BufferThreads : voidBufferAllocate_Increment(t)
    \/ \E t \in BufferThreads : voidBufferFree_Free(t)
    \/ \E t \in BufferThreads : voidBufferFree_Decrement(t)
    \/ buffers_pthread_create
    \/ buffers_raopClientSetVolume
    \/ buffers_raopClientSendAudioMessages
    \/ buffers_raopClientWait
    \/ buffers_bufferGetBuffersInUse

BufferSpec == BufferInit /\ [][BufferNext]_vars

\* no thread is between its malloc or free and the store of the counter
NoCountPending == \A t \in BufferThreads : ~buffers.counting[t]

\* C37: the buffers-in-use counter is the number of buffers allocated and not
\* yet freed, also when the foreground and the audio thread allocate and free
\* at the same time; after open, play, wait and close it is 0.
C37_CounterIsBuffersInUse ==
    /\ NoCountPending => buffers.bufferAllocateCount = buffers.inUse
    /\ buffers.pc["fg"] = "check" => buffers.bufferAllocateCount = 0

\* ------------------------------------------------------------------
\* rtsprequest.c: the content of a request and its Content-Type and
\* Content-Length fields
\* ------------------------------------------------------------------
\* the positions at which a text occurs in the bytes
Occurrences(bytes, text) ==
    {i \in 1..(Len(bytes) - Len(text) + 1) : SubSeq(bytes, i, i + Len(text) - 1) = text}

EndOfHeader == <<13, 10, 13, 10>>

\* the position of the empty line that ends the header of the request sent
HeaderEnd(bytes) ==
    CHOOSE i \in Occurrences(bytes, EndOfHeader) :
        \A j \in Occurrences(bytes, EndOfHeader) : i <= j

\* the request line and header fields of the request sent, and its body
HeaderOf(bytes) == SubSeq(bytes, 1, HeaderEnd(bytes) + 1)
BodyOf(bytes) == SubSeq(bytes, HeaderEnd(bytes) + 4, Len(bytes))

\* the content additions of the request sent
ContentAdditions(additions) == {i \in DOMAIN additions : "content" \in DOMAIN additions[i]}

\* every Content-Length field of the header gives the size
ContentLengthIs(header, size) ==
    /\ Occurrences(header, ContentLength \o <<58, 32>>) # {}
    /\ Occurrences(header, ContentLength \o <<58, 32>>)
           = Occurrences(header, ContentLength \o <<58, 32>> \o FormatUnsigned(size) \o <<13, 10>>)

\* C38: a request built without content is sent with an empty body and without
\* Content-Type and Content-Length fields, also when the request before it in
\* the same RTSPRequest had a content; a request with a content carries a
\* Content-Length that is the number of bytes of its body.
C38_ContentFieldsFollowTheContent ==
    (sent # NothingSent /\ sent.ok) =>
        /\ Occurrences(sent.requestBuffer, EndOfHeader) # {}
        /\ IF ContentAdditions(sent.additions) = {}
           THEN /\ BodyOf(sent.requestBuffer) = <<>>
                /\ Occurrences(HeaderOf(sent.requestBuffer), ContentType) = {}
                /\ Occurrences(HeaderOf(sent.requestBuffer), ContentLength) = {}
           ELSE /\ BodyOf(sent.requestBuffer) # <<>>
                /\ \E i \in ContentAdditions(sent.additions) :
                      BodyOf(sent.requestBuffer) = sent.additions[i].content
                /\ Occurrences(HeaderOf(sent.requestBuffer), ContentType \o <<58, 32>>) # {}
                /\ ContentLengthIs(HeaderOf(sent.requestBuffer),
                                   Len(BodyOf(sent.requestBuffer)))

\* C38: a SETUP request without any addition was sent from an RTSPRequest that
\* was reset after it had held a content
C38_SentWithoutContentAfterContent ==
    /\ sent.ok /\ sent.resets = MaxResets
    /\ sent.requestMethod = "SETUP" /\ sent.additions = <<>>
    /\ request.contentBuffer = <<1, 2, 3>> /\ request.contentBufferSize = 0
    /\ BodyOf(sent.requestBuffer) = <<>>

\* ------------------------------------------------------------------
\* m4afile.c: m4aFileSetTimeValue when the boxes of a file give different
\* timescales or durations
\* ------------------------------------------------------------------
\* the unsigned long at an offset of the box parsed last
BoxLong(offset) ==
    read4ByteUnsignedInt32(file, Position(0, lastBox.start.low + offset)).value

\* a value m4aFileSetTimeValue takes for meaningful
Meaningful(timeValue) == timeValue # 0 /\ timeValue # 0 - 1

\* the box parsed last is of the type, begins inside the file and was parsed
\* without error
Parsed(boxType) ==
    /\ lastBox.boxType = boxType
    /\ lastBox.start.high = 0
    /\ lastBox.status \in {"M4AFILE_OK", "M4AFILE_PARSED_WITH_WARNINGS"}

\* C39: when the boxes of a file carry different meaningful values for the
\* timescale or for the duration, the parser goes on with the latest one: once
\* a media header (version 0) or a sample time table (of one entry) is parsed,
\* the timescale and the duration of the file are those of that box.
C39_TimeValuesAreTheLatest ==
    /\ (Parsed(BoxType.mdhd) /\ BoxLong(8) = 0) =>
          /\ Meaningful(BoxLong(20)) => m4aFile.timescale = BoxLong(20)
          /\ Meaningful(BoxLong(24)) => m4aFile.duration = BoxLong(24)
    /\ (Parsed(BoxType.stts) /\ BoxLong(8) = 0 /\ BoxLong(12) = 1) =>
          (Meaningful(Times32(BoxLong(16), BoxLong(20)))
               => m4aFile.duration = Times32(BoxLong(16), BoxLong(20)))
====
